---- MODULE Spec2Model ----
(***************************************************************************)
(* A model of the SGA-V2 virtual filesystem of relic.sga.v2                *)
(* (src/src/relic/sga/v2/filesystem.py): the path resolver, the lazy and   *)
(* in-memory file and folder nodes, their wrappers and the SgaFsV2         *)
(* operations.                                                             *)
(*                                                                         *)
(* Conventions                                                             *)
(*   - A Python str is a sequence of one-character strings, so that        *)
(*     splitting, joining and parsing are computed character by character. *)
(*   - A Python call that may raise is an operator returning a record      *)
(*     with a field err: "ok" or the name of the exception class.          *)
(*   - Objects live in two heaps (folders, files) indexed by identity; a   *)
(*     reference is a record [t, id].                                      *)
(***************************************************************************)
EXTENDS Integers, Sequences, FiniteSets, TLC

VARIABLES drives, folders, files, last, threads, archive, sga

vars == <<drives, folders, files, last, threads, archive, sga>>

-----------------------------------------------------------------------------
(* Bounds of the model *)

\* objects a client may construct and add on top of the archive's own nodes
MaxNewFolders == 1
MaxNewFiles == 1
\* longest path, in segments, handed to a path operation
MaxDepth == 2

-----------------------------------------------------------------------------
(* Python values *)

OK == "ok"
None == <<"<None>">>          \* Python None where a str is expected
NoneRef == [t |-> "none", id |-> 0]
EmptyMap == <<>>              \* the empty dict
Raise(e) == [err |-> e, val |-> <<>>]
Return(v) == [err |-> OK, val |-> v]
\* result = <call> followed by the statements that read result
Bind(result, Rest(_)) == Rest(result)

FolderRef(i) == [t |-> "folder", id |-> i]
FileRef(i) == [t |-> "file", id |-> i]

\* dict[name] = value (insert or overwrite)
DictSet(d, k, v) == [x \in (DOMAIN d) \cup {k} |-> IF x = k THEN v ELSE d[x]]
\* dict.get(name), None when absent
DictGet(d, k) == IF k \in DOMAIN d THEN d[k] ELSE NoneRef

-----------------------------------------------------------------------------
(* SgaPathResolver *)

SEP == "/"
ROOT == <<SEP>>

RECURSIVE fix_seperator(_)
fix_seperator(path) ==
    IF path = <<>> THEN <<>>
    ELSE <<IF Head(path) = "\\" THEN SEP ELSE Head(path)>> \o fix_seperator(Tail(path))

\* index of the first occurrence of character c in s, 0 when there is none
RECURSIVE IndexOf(_, _, _)
IndexOf(s, c, i) ==
    IF i > Len(s) THEN 0
    ELSE IF s[i] = c THEN i
    ELSE IndexOf(s, c, i + 1)

\* str.split(sep): always at least one part
RECURSIVE StrSplit(_, _)
StrSplit(s, c) ==
    LET i == IndexOf(s, c, 1) IN
    IF i = 0 THEN <<s>>
    ELSE <<SubSeq(s, 1, i - 1)>> \o StrSplit(SubSeq(s, i + 1, Len(s)), c)

parse(path) ==
    LET i == IndexOf(path, ":", 1) IN
    IF i # 0
    THEN [alias |-> SubSeq(path, 1, i - 1), path |-> SubSeq(path, i + 1, Len(path))]
    ELSE [alias |-> None, path |-> path]

split_parts(path0) ==
    LET path == fix_seperator(path0)
        parts == StrSplit(path, SEP)
    IN IF parts[1] = <<>>
       THEN IF Len(path) = 0 THEN Raise("IndexError")       \* path[0] of ""
            ELSE IF path[1] = SEP THEN Return([parts EXCEPT ![1] = ROOT])
            ELSE Return(parts)
       ELSE Return(parts)

RECURSIVE JoinLoop(_, _)
JoinLoop(parts, result) ==
    IF parts = <<>> THEN Return(result)
    ELSE IF Head(parts) = None THEN Raise("AttributeError")   \* None.replace
    ELSE LET part == fix_seperator(Head(parts)) IN
         IF Len(part) = 0 THEN Raise("IndexError")            \* part[0] of ""
         ELSE IF part[1] = SEP \/ Len(result) = 0 THEN JoinLoop(Tail(parts), part)
         ELSE IF result[Len(result)] # SEP
              THEN JoinLoop(Tail(parts), result \o <<SEP>> \o part)
         ELSE JoinLoop(Tail(parts), result \o part)

join(parts, add_root) ==
    LET r == JoinLoop(parts, <<>>) IN
    IF r.err # OK THEN r
    ELSE IF add_root /\ (Len(r.val) = 0 \/ r.val[1] # SEP)
         THEN Return(ROOT \o r.val)
    ELSE r

\* build(*path, alias=alias)
build(path, alias) ==
    LET j == join(path, FALSE) IN
    IF j.err # OK THEN j
    ELSE IF alias # None /\ alias # <<>>
         THEN LET full_path == IF Len(j.val) = 0 THEN ROOT
                               ELSE IF j.val[1] # SEP THEN ROOT \o j.val
                               ELSE j.val
              IN Return(alias \o <<":">> \o full_path)
    ELSE j

\* split(path) -> (parent, basename)
split(path) ==
    LET sp == split_parts(path) IN
    IF sp.err # OK THEN sp
    ELSE LET parts == sp.val
             j == join(SubSeq(parts, 1, Len(parts) - 1), FALSE)
         IN IF j.err # OK THEN j
            ELSE Return([parent |-> j.val, child |-> parts[Len(parts)]])

basename(path) ==
    LET s == split(path) IN IF s.err # OK THEN s ELSE Return(s.val.child)

dirname(path) ==
    LET s == split(path) IN IF s.err # OK THEN s ELSE Return(s.val.parent)

-----------------------------------------------------------------------------
(* The archive handed to SgaFsV2(handle, parse_handle=True): its table of   *)
(* contents as _load_lazy sees it.  Indices are 0-based and ranges are      *)
(* half-open, as in the file format.  The drive "d" holds                   *)
(*     <root> -> "/" -> { "" , "x" -> file "a" }                            *)
(* so that the parts split_parts gives for "d:/", "d:/x" and "d:/x/y" (the  *)
(* first of which is always "/") name folders of the archive.               *)

Now == 9                       \* time.time() at the moment of a call
NoneInt == -1                  \* Python None where an int is expected

\* relic.sga.core.hashtools.crc32 over a payload, reduced to a small checksum
RECURSIVE crc32(_)
crc32(data) == IF data = <<>> THEN 0 ELSE (3 * crc32(Tail(data)) + Head(data) + 1) % 8

TocFolders == <<
    [name |-> <<>>,    first_folder |-> 1, last_folder |-> 2, first_file |-> 0, last_file |-> 0],
    [name |-> <<"/">>, first_folder |-> 2, last_folder |-> 4, first_file |-> 0, last_file |-> 0],
    [name |-> <<>>,    first_folder |-> 4, last_folder |-> 4, first_file |-> 0, last_file |-> 0],
    [name |-> <<"x">>, first_folder |-> 4, last_folder |-> 4, first_file |-> 0, last_file |-> 1] >>

TocFiles == <<
    [name |-> <<"a">>, storage_type |-> "STORE", data |-> <<1, 2>>,
     decompressed_size |-> 2, crc32 |-> crc32(<<1, 2>>), modified |-> 5] >>

\* the drive table: an archive holds its first entry, or both.  The root of
\* "e" has no child at all, so that no path resolves in it.
TocDrives == <<
    [alias |-> <<"d">>, name |-> <<"d">>, root_folder |-> 0],
    [alias |-> <<"e">>, name |-> <<"e">>, root_folder |-> 2] >>

NumTocFolders == Len(TocFolders)
NumTocFiles == Len(TocFiles)

FolderIds == 1 .. (NumTocFolders + MaxNewFolders)
FileIds == 1 .. (NumTocFiles + MaxNewFiles)
\* slot 0 holds an object between its construction and the call it is handed
\* to, when the model has no room to keep it
FolderSlots == {0} \cup FolderIds
FileSlots == {0} \cup FileIds
\* the file objects _load_lazy wraps
ArchiveFileIds == 1 .. NumTocFiles

\* Python's seq[first:last] on 0-based indices
Slice(seq, start, stop) ==
    LET lo == IF start > Len(seq) THEN Len(seq) ELSE start
        hi == IF stop > Len(seq) THEN Len(seq) ELSE stop
    IN SubSeq(seq, lo + 1, hi)

\* the lists all_folders / all_files built by _load_lazy, as heap references
all_folders == [i \in 1 .. NumTocFolders |-> FolderRef(i)]
all_files == [i \in 1 .. NumTocFiles |-> FileRef(i)]

-----------------------------------------------------------------------------
(* Heap objects *)

NoMemo == [set |-> FALSE, map |-> EmptyMap]          \* a lookup still None
NoLazyFolder == [_info |-> NoneInt, _files |-> NoMemo, _folders |-> NoMemo]
NoMemFolder == [_name |-> <<>>, _children |-> EmptyMap, _folders |-> EmptyMap,
                _files |-> EmptyMap]

FreeFolder == [kind |-> "free", _is_lazy |-> FALSE, backing |-> "none",
               lazy |-> NoLazyFolder, mem |-> NoMemFolder]

\* SgaFsFolderV2Lazy(info, ...)
SgaFsFolderV2Lazy(info) == [_info |-> info, _files |-> NoMemo, _folders |-> NoMemo]

\* SgaFsFolderV2Mem(name)
SgaFsFolderV2Mem(name) ==
    [_name |-> name, _children |-> EmptyMap, _folders |-> EmptyMap, _files |-> EmptyMap]

\* a bare SgaFsFolderV2Mem object on the heap (what makedir adds)
MemFolderObject(name) ==
    [kind |-> "mem", _is_lazy |-> FALSE, backing |-> "mem",
     lazy |-> NoLazyFolder, mem |-> SgaFsFolderV2Mem(name)]

\* SgaFsFolderV2(lazy=SgaFsFolderV2Lazy(...))
LazyFolderWrapper(info) ==
    [kind |-> "wrapper", _is_lazy |-> TRUE, backing |-> "lazy",
     lazy |-> SgaFsFolderV2Lazy(info), mem |-> NoMemFolder]

NoMemFile == [_name |-> <<>>, _modified |-> NoneInt, _storage_type |-> "STORE",
              _handle |-> <<>>, _size |-> 0, _crc32 |-> 0]

FreeFile == [kind |-> "free", _is_lazy |-> FALSE, backing |-> "none",
             _info |-> NoneInt, mem |-> NoMemFile]

\* SgaFsFileV2Mem.__init__(name, storage_type, data, modified, crc)
SgaFsFileV2Mem(name, storage_type, data, modified, crc) ==
    [_name |-> name,
     _modified |-> IF modified # NoneInt THEN Now ELSE modified,
     _storage_type |-> IF storage_type # "None" THEN storage_type ELSE "STORE",
     _handle |-> data,
     _size |-> Len(data),
     _crc32 |-> IF crc # NoneInt THEN crc ELSE crc32(data)]

\* a bare SgaFsFileV2Mem object on the heap
MemFileObject(m) ==
    [kind |-> "mem", _is_lazy |-> FALSE, backing |-> "mem", _info |-> NoneInt, mem |-> m]

\* SgaFsFileV2(lazy=SgaFsFileV2Lazy(info, data))
LazyFileWrapper(info) ==
    [kind |-> "wrapper", _is_lazy |-> TRUE, backing |-> "lazy", _info |-> info,
     mem |-> NoMemFile]

\* SgaFsDriveV2Lazy(info, all_folders)
SgaFsDriveV2Lazy(info) ==
    [alias |-> TocDrives[info + 1].alias, name |-> TocDrives[info + 1].name,
     root |-> all_folders[TocDrives[info + 1].root_folder + 1]]

\* _load_lazy: the wrapped files and folders of the archive
LoadedFolders ==
    [i \in FolderSlots |->
        IF i \in 1 .. NumTocFolders THEN LazyFolderWrapper(i - 1) ELSE FreeFolder]
LoadedFiles ==
    [i \in FileSlots |->
        IF i \in 1 .. NumTocFiles THEN LazyFileWrapper(i - 1) ELSE FreeFile]
\* SgaFsV2(None): nothing is parsed
NoFolders == [i \in FolderSlots |-> FreeFolder]
NoFiles == [i \in FileSlots |-> FreeFile]
\* the drives _load_lazy adds for an archive of one drive and of two
LoadedDrives == [i \in 1 .. 1 |-> SgaFsDriveV2Lazy(i - 1)]
LoadedTwoDrives == [i \in 1 .. Len(TocDrives) |-> SgaFsDriveV2Lazy(i - 1)]

-----------------------------------------------------------------------------
(* Folder nodes *)

\* .name of a folder object (SgaFsFolderV2Lazy.name reads the name window)
folder_name(f) ==
    IF f.backing = "lazy" THEN TocFolders[f.lazy._info + 1].name ELSE f.mem._name

\* .name of a file object: SgaFsFileV2Mem defines it; SgaFsFileV2 and
\* SgaFsFileV2Lazy inherit _SgaFsFileV2.name, which raises
file_name(f) ==
    IF f.kind = "mem" THEN Return(f.mem._name) ELSE Raise("NotImplementedError")

\* {f.name: f for f in sub_files}
RECURSIVE FilesByName(_, _, _)
FilesByName(fi, refs, acc) ==
    IF refs = <<>> THEN Return(acc)
    ELSE LET n == file_name(fi[Head(refs).id]) IN
         IF n.err # OK THEN n
         ELSE FilesByName(fi, Tail(refs), DictSet(acc, n.val, Head(refs)))

\* {f.name: f for f in sub_folders}
RECURSIVE FoldersByName(_, _, _)
FoldersByName(fo, refs, acc) ==
    IF refs = <<>> THEN acc
    ELSE FoldersByName(fo, Tail(refs),
                       DictSet(acc, folder_name(fo[Head(refs).id]), Head(refs)))

\* SgaFsFolderV2Lazy._files_lookup on the lazy backing lz
_files_lookup(lz, fi) ==
    IF lz._files.set THEN [err |-> OK, val |-> lz._files.map, lazy |-> lz]
    ELSE LET info == TocFolders[lz._info + 1]
             sub_files == Slice(all_files, info.first_file, info.last_file)
             d == FilesByName(fi, sub_files, EmptyMap)
         IN IF d.err # OK THEN [err |-> d.err, val |-> EmptyMap, lazy |-> lz]
            ELSE [err |-> OK, val |-> d.val,
                  lazy |-> [lz EXCEPT !._files = [set |-> TRUE, map |-> d.val]]]

\* SgaFsFolderV2Lazy._folder_lookup on the lazy backing lz
_folder_lookup(lz, fo) ==
    IF lz._folders.set THEN [err |-> OK, val |-> lz._folders.map, lazy |-> lz]
    ELSE LET info == TocFolders[lz._info + 1]
             sub_folders == Slice(all_folders, info.first_folder, info.last_folder)
             d == FoldersByName(fo, sub_folders, EmptyMap)
         IN [err |-> OK, val |-> d,
             lazy |-> [lz EXCEPT !._folders = [set |-> TRUE, map |-> d]]]

\* SgaFsFolderV2Lazy.get_child
lazy_get_child(lz, name, fo, fi) ==
    Bind(_files_lookup(lz, fi), LAMBDA fl :
    IF fl.err # OK THEN [err |-> fl.err, val |-> NoneRef, lazy |-> fl.lazy]
    ELSE IF name \in DOMAIN fl.val THEN [err |-> OK, val |-> fl.val[name], lazy |-> fl.lazy]
    ELSE Bind(_folder_lookup(fl.lazy, fo), LAMBDA dl :
         IF name \in DOMAIN dl.val
         THEN [err |-> OK, val |-> dl.val[name], lazy |-> dl.lazy]
         ELSE [err |-> OK, val |-> NoneRef, lazy |-> dl.lazy]))

\* get_child of the folder object id: SgaFsFolderV2.get_child delegates to its
\* backing, SgaFsFolderV2Mem.get_child reads _children.  The lazy lookups are
\* memoised, so the folder heap is returned with the result.
get_child(fo, fi, id, name) ==
    IF fo[id].backing = "lazy"
    THEN Bind(lazy_get_child(fo[id].lazy, name, fo, fi), LAMBDA r :
         [err |-> r.err, val |-> r.val, fo |-> [fo EXCEPT ![id].lazy = r.lazy]])
    ELSE [err |-> OK, val |-> DictGet(fo[id].mem._children, name), fo |-> fo]

\* SgaFsFolderV2Mem._add_child(name, resource, alt_lookup); alt_lookup names
\* the dict that was passed ("_files" or "_folders")
_add_child(m, name, resource, alt_lookup) ==
    IF name \in DOMAIN m._children
    THEN IF name \in DOMAIN m._files THEN [err |-> "FileExists", val |-> m]
         ELSE IF name \in DOMAIN m._folders THEN [err |-> "DirectoryExists", val |-> m]
         ELSE IF name \in DOMAIN m[alt_lookup] THEN [err |-> "ResourceError", val |-> m]
         ELSE [err |-> "KeyError", val |-> m]        \* alt_lookup[name] in the message
    ELSE [err |-> OK,
          val |-> [m EXCEPT !._children = DictSet(@, name, resource),
                            ![alt_lookup] = DictSet(@, name, resource)]]

\* SgaFsFolderV2Mem.add_file(file)
mem_add_file(m, file, fi) ==
    LET n == file_name(fi[file.id]) IN
    IF n.err # OK THEN [err |-> n.err, val |-> m]
    ELSE _add_child(m, n.val, file, "_files")

\* SgaFsFolderV2Mem.add_folder(folder)
mem_add_folder(m, folder, fo) ==
    _add_child(m, folder_name(fo[folder.id]), folder, "_files")

\* SgaFsFolderV2Mem.folders / .files / .scandir
mem_folders(m) == {m._folders[n] : n \in DOMAIN m._folders}
mem_files(m) == {m._files[n] : n \in DOMAIN m._files}
mem_scandir(m) == DOMAIN m._children

\* for child in children: root.add_folder(child) / root.add_file(child)
RECURSIVE MigrateAll(_, _, _, _)
MigrateAll(m, refs, fo, fi) ==
    IF refs = {} THEN [err |-> OK, val |-> m]
    ELSE LET r == CHOOSE x \in refs : TRUE IN
         Bind(IF r.t = "folder" THEN mem_add_folder(m, r, fo) ELSE mem_add_file(m, r, fi),
              LAMBDA a : IF a.err # OK THEN a ELSE MigrateAll(a.val, refs \ {r}, fo, fi))

\* a conversion that marks an already converted wrapper lazy again
_convert_to_memfolder_relapsing(f, fo, fi) ==
    IF ~f._is_lazy THEN [f EXCEPT !._is_lazy = TRUE]
    ELSE [f EXCEPT !._is_lazy = FALSE, !.backing = "mem", !.lazy = NoLazyFolder,
                   !.mem = SgaFsFolderV2Mem(folder_name(f))]

\* SgaFsFolderV2._convert_to_memfolder on the wrapper f.  self._backing is
\* assigned the new SgaFsFolderV2Mem before the children are migrated, so the
\* loops read the folders and files of the new, empty folder.
_convert_to_memfolder(f, fo, fi) ==
    IF ~f._is_lazy THEN f
    ELSE LET root == SgaFsFolderV2Mem(folder_name(f))
             _backing == root
         IN Bind(MigrateAll(root, mem_folders(_backing), fo, fi), LAMBDA a :
            Bind(MigrateAll(a.val, mem_files(_backing), fo, fi), LAMBDA b :
                 [f EXCEPT !._is_lazy = FALSE, !.backing = "mem",
                           !.lazy = NoLazyFolder, !.mem = b.val]))

\* add_file on the folder object id: SgaFsFolderV2.add_file promotes and
\* delegates, SgaFsFolderV2Mem.add_file adds.  Returns [err, fo].
add_file(fo, fi, id, file) ==
    Bind(IF fo[id].kind = "wrapper" THEN _convert_to_memfolder(fo[id], fo, fi) ELSE fo[id],
         LAMBDA f :
    Bind(mem_add_file(f.mem, file, fi), LAMBDA a :
         [err |-> a.err, fo |-> [fo EXCEPT ![id] = [f EXCEPT !.mem = a.val]]]))

\* add_folder on the folder object id
add_folder(fo, fi, id, folder) ==
    Bind(IF fo[id].kind = "wrapper" THEN _convert_to_memfolder(fo[id], fo, fi) ELSE fo[id],
         LAMBDA f :
    Bind(mem_add_folder(f.mem, folder, fo), LAMBDA a :
         [err |-> a.err, fo |-> [fo EXCEPT ![id] = [f EXCEPT !.mem = a.val]]]))

\* scandir of the folder object id; SgaFsFolderV2Lazy.scandir multiplies two
\* key views (or reads .keys of None) and always raises
scandir(fo, id) ==
    IF fo[id].backing = "lazy"
    THEN IF fo[id].lazy._files.set /\ fo[id].lazy._folders.set
         THEN Raise("TypeError") ELSE Raise("AttributeError")
    ELSE Return(mem_scandir(fo[id].mem))

-----------------------------------------------------------------------------
(* File nodes *)

NS_BASIC == "basic"
NS_DETAILS == "details"
NS_ESSENCE == "essence"
NoneNs == {"<None>"}           \* namespaces=None

\* the raw mapping an Info is built from; keys are its top-level keys
InfoOf(name, is_dir) ==
    [keys |-> {NS_BASIC}, name |-> name, is_dir |-> is_dir, size |-> NoneInt,
     modified |-> NoneInt, crc32 |-> NoneInt, storage_type |-> "None"]
NoInfo == InfoOf(<<>>, FALSE)

\* SgaFsFileV2Lazy.getinfo.  _data_info.header is a property, so header()
\* calls the data header object and raises; _info.name is taken to be the
\* name-pool entry of the file.
lazy_file_getinfo(info, namespaces) ==
    IF namespaces = NoneNs THEN [err |-> "TypeError", val |-> NoInfo]
    ELSE IF NS_DETAILS \in namespaces THEN [err |-> "TypeError", val |-> NoInfo]
    ELSE IF NS_ESSENCE \in namespaces THEN [err |-> "TypeError", val |-> NoInfo]
    ELSE [err |-> OK, val |-> InfoOf(TocFiles[info + 1].name, FALSE)]

\* SgaFsFileV2Mem.getinfo.  The details are built from _handle.name, which a
\* BytesIO does not have; crc32 and storage_type are stored as top-level keys.
mem_file_getinfo(m, namespaces) ==
    IF namespaces = NoneNs THEN [err |-> "TypeError", val |-> NoInfo]
    ELSE IF NS_DETAILS \in namespaces THEN [err |-> "AttributeError", val |-> NoInfo]
    ELSE IF NS_ESSENCE \in namespaces
         THEN [err |-> OK,
               val |-> [InfoOf(m._name, FALSE) EXCEPT
                            !.keys = {NS_BASIC, "crc32", "storage_type"},
                            !.crc32 = m._crc32, !.storage_type = m._storage_type]]
    ELSE [err |-> OK, val |-> InfoOf(m._name, FALSE)]

\* getinfo of the file object f (SgaFsFileV2.getinfo delegates to its backing)
file_getinfo(f, namespaces) ==
    IF f.backing = "lazy" THEN lazy_file_getinfo(f._info, namespaces)
    ELSE mem_file_getinfo(f.mem, namespaces)

\* SgaFsFileV2Mem.setinfo(info); a field of info equal to None is a key that
\* is not given
mem_file_setinfo(m, info) ==
    IF NS_DETAILS \in info.keys /\ info.modified = NoneInt
    THEN [err |-> "KeyError", val |-> m]
    ELSE LET m1 == IF NS_DETAILS \in info.keys
                   THEN [m EXCEPT !._modified = info.modified] ELSE m
             m2 == IF NS_ESSENCE \in info.keys
                   THEN [m1 EXCEPT
                            !._crc32 = IF info.crc32 # NoneInt THEN info.crc32 ELSE @,
                            !._storage_type = IF info.storage_type # "None"
                                              THEN info.storage_type ELSE @]
                   ELSE m1
         IN [err |-> OK, val |-> m2]

\* SgaFsFileV2._convert_to_memfile on the wrapper f: [err, val].  _is_lazy is
\* cleared first; getinfo of the lazy backing with details and essence then
\* raises (were it to return, info[NS_BASIC] subscripts an fs Info, which also
\* raises), so the backing is never replaced.
_convert_to_memfile(f) ==
    IF ~f._is_lazy THEN [err |-> OK, val |-> f]
    ELSE LET g == [f EXCEPT !._is_lazy = FALSE] IN
         Bind(file_getinfo(g, {NS_DETAILS, NS_ESSENCE}), LAMBDA info :
              IF info.err # OK THEN [err |-> info.err, val |-> g]
              ELSE [err |-> "TypeError", val |-> g])

\* Mode(mode).writing of fs.mode
writing(mode) == \E i \in 1 .. Len(mode) : mode[i] \in {"w", "a", "+", "x"}

\* what a client's write of w at the start of the stream leaves in a BytesIO
WriteAt0(data, w) == w \o SubSeq(data, Len(w) + 1, Len(data))

\* openbin(mode) of the file object f, the with-block writing w when the mode
\* is a writing one and reading the stream otherwise: [err, val, read]
file_openbin(f, mode, w) ==
    Bind(IF f.kind = "wrapper" /\ writing(mode) THEN _convert_to_memfile(f)
         ELSE [err |-> OK, val |-> f],
         LAMBDA c :
    Bind(c.val, LAMBDA g :
    IF c.err # OK THEN [err |-> c.err, val |-> g, read |-> <<>>]
    ELSE IF g.backing = "lazy"
         THEN IF writing(mode) THEN [err |-> "RelicToolError", val |-> g, read |-> <<>>]
              ELSE [err |-> OK, val |-> g, read |-> TocFiles[g._info + 1].data]
    ELSE IF writing(mode)
         THEN [err |-> OK, val |-> [g EXCEPT !.mem._handle = WriteAt0(@, w)],
               read |-> <<>>]
    ELSE [err |-> OK, val |-> g, read |-> g.mem._handle]))

\* verify_crc32(error) of the file object f: [err, val]
file_verify_crc32(f, error) ==
    IF f.backing = "lazy" THEN [err |-> "TypeError", val |-> FALSE]     \* header()
    ELSE LET match == crc32(f.mem._handle) = f.mem._crc32 IN
         IF error /\ ~match THEN [err |-> "Crc32Mismatch", val |-> FALSE]
         ELSE [err |-> OK, val |-> match]

\* recalculate_crc32 of the file object f: [err, val]
file_recalculate_crc32(f) ==
    Bind(IF f.kind = "wrapper" THEN _convert_to_memfile(f) ELSE [err |-> OK, val |-> f],
         LAMBDA c :
    Bind(c.val, LAMBDA g :
    IF c.err # OK THEN c
    ELSE IF g.backing = "lazy" THEN [err |-> "RelicToolError", val |-> g]
    ELSE [err |-> OK, val |-> [g EXCEPT !.mem._crc32 = crc32(g.mem._handle)]]))

\* setinfo(info) of the file object f: [err, val].  SgaFsFileV2.setinfo calls
\* self.setinfo again after the conversion and ends in a RecursionError.
file_setinfo(f, info) ==
    IF f.kind = "wrapper"
    THEN Bind(_convert_to_memfile(f), LAMBDA c :
              IF c.err # OK THEN c ELSE [err |-> "RecursionError", val |-> c.val])
    ELSE Bind(mem_file_setinfo(f.mem, info), LAMBDA r :
              [err |-> r.err, val |-> [f EXCEPT !.mem = r.val]])

\* setinfo(info) of the folder object id: [err, val].  SgaFsFolderV2.setinfo
\* promotes and then calls itself; SgaFsFolderV2Mem.setinfo refuses.
folder_setinfo(f, fo, fi) ==
    IF f.kind = "wrapper"
    THEN [err |-> "RecursionError", val |-> _convert_to_memfolder(f, fo, fi)]
    ELSE [err |-> "RelicToolError", val |-> f]

-----------------------------------------------------------------------------
(* SgaFsV2: path lookup *)

\* node.getinfo("basic").get("basic", "is_dir")
is_dir(node) == node.t = "folder"

RECURSIVE Descend(_, _, _, _)
Descend(fo, fi, current, parts) ==
    IF parts = <<>> THEN [err |-> OK, val |-> current, fo |-> fo]
    ELSE IF current = NoneRef THEN [err |-> "ResourceNotFound", val |-> NoneRef, fo |-> fo]
    ELSE IF ~is_dir(current) THEN [err |-> "DirectoryExpected", val |-> NoneRef, fo |-> fo]
    ELSE Bind(get_child(fo, fi, current.id, Head(parts)), LAMBDA c :
         IF c.err # OK THEN [err |-> c.err, val |-> NoneRef, fo |-> c.fo]
         ELSE Descend(c.fo, fi, c.val, Tail(parts)))

\* SgaFsV2._getnode_from_drive(drive, path, exists): [err, val, fo]
_getnode_from_drive(fo, fi, drive, path, exists) ==
    Bind(split_parts(path), LAMBDA sp :
    IF sp.err # OK THEN [err |-> sp.err, val |-> NoneRef, fo |-> fo]
    ELSE Bind(Descend(fo, fi, drive.root, sp.val), LAMBDA d :
         IF d.err = OK /\ exists /\ d.val = NoneRef
         THEN [err |-> "ResourceNotFound", val |-> NoneRef, fo |-> d.fo]
         ELSE d))

\* the drive stored under alias, when there is one
HasDrive(dr, alias) == \E i \in 1 .. Len(dr) : dr[i].alias = alias
DriveOf(dr, alias) == dr[CHOOSE i \in 1 .. Len(dr) : dr[i].alias = alias]

\* for drive in self.drives: try ... except ResourceNotFound: continue
RECURSIVE TryDrives(_, _, _, _, _)
TryDrives(fo, fi, ds, path, exists) ==
    IF ds = <<>> THEN [err |-> "ResourceNotFound", val |-> NoneRef, fo |-> fo]
    ELSE Bind(_getnode_from_drive(fo, fi, Head(ds), path, exists), LAMBDA r :
         IF r.err = "ResourceNotFound" THEN TryDrives(r.fo, fi, Tail(ds), path, exists)
         ELSE r)

\* SgaFsV2._getnode(path, exists): [err, val, fo]
_getnode(fo, fi, dr, path, exists) ==
    LET p == parse(path) IN
    IF p.alias # None
    THEN IF ~HasDrive(dr, p.alias)
         THEN [err |-> "ResourceNotFound", val |-> NoneRef, fo |-> fo]
         ELSE _getnode_from_drive(fo, fi, DriveOf(dr, p.alias), p.path, exists)
    ELSE TryDrives(fo, fi, dr, p.path, exists)

\* SgaFsV2._get_parent_and_child(path): [err, val (the parent), child, fo].
\* build(alias, _parent) passes the alias as the first path part.
_get_parent_and_child(fo, fi, dr, path) ==
    LET p == parse(path) IN
    Bind(split(p.path), LAMBDA s :
    IF s.err # OK THEN [err |-> s.err, val |-> NoneRef, child |-> <<>>, fo |-> fo]
    ELSE Bind(build(<<p.alias, s.val.parent>>, None), LAMBDA parent_path :
         IF parent_path.err # OK
         THEN [err |-> parent_path.err, val |-> NoneRef, child |-> <<>>, fo |-> fo]
         ELSE Bind(_getnode(fo, fi, dr, parent_path.val, TRUE), LAMBDA n :
              IF n.err # OK
              THEN [err |-> n.err, val |-> NoneRef, child |-> <<>>, fo |-> n.fo]
              ELSE IF ~is_dir(n.val)
                   THEN [err |-> "ResourceNotFound", val |-> NoneRef, child |-> <<>>,
                         fo |-> n.fo]
              ELSE [err |-> OK, val |-> n.val, child |-> s.val.child, fo |-> n.fo])))

\* getinfo(namespaces) of a node
node_getinfo(fo, fi, node, namespaces) ==
    IF node.t = "folder" THEN [err |-> OK, val |-> InfoOf(folder_name(fo[node.id]), TRUE)]
    ELSE file_getinfo(fi[node.id], namespaces)

\* fs.base.FS.opendir(path): getinfo(path).is_dir or DirectoryExpected
opendir(fo, fi, dr, path) ==
    Bind(_getnode(fo, fi, dr, path, TRUE), LAMBDA n :
    IF n.err # OK THEN [err |-> n.err, val |-> NoneRef, fo |-> n.fo]
    ELSE Bind(node_getinfo(n.fo, fi, n.val, NoneNs), LAMBDA i :
         IF i.err # OK THEN [err |-> i.err, val |-> NoneRef, fo |-> n.fo]
         ELSE IF ~i.val.is_dir THEN [err |-> "DirectoryExpected", val |-> NoneRef, fo |-> n.fo]
         ELSE [err |-> OK, val |-> n.val, fo |-> n.fo]))

-----------------------------------------------------------------------------
(* SgaFsV2: drives *)

\* SgaFsFolderV2.__init__(lazy, mem): exactly one of the two must be given
SgaFsFolderV2(has_lazy, has_mem) ==
    IF has_lazy /\ has_mem THEN Raise("RelicToolError")
    ELSE IF ~has_lazy /\ ~has_mem THEN Raise("RelicToolError")
    ELSE Return(has_lazy)

\* SgaFsDriveV2Mem.__init__(name, alias): its root is SgaFsFolderV2() with
\* neither backing, which the constructor above rejects
SgaFsDriveV2Mem(name, alias) ==
    Bind(SgaFsFolderV2(FALSE, FALSE), LAMBDA _root :
    IF _root.err # OK THEN [err |-> _root.err, val |-> NoneRef]
    ELSE [err |-> OK, val |-> [alias |-> alias, name |-> name, root |-> NoneRef]])

\* SgaFsV2.add_drive(drive): [err, dr]
add_drive(dr, drive) ==
    IF HasDrive(dr, drive.alias) THEN [err |-> "DriveExistsError", dr |-> dr]
    ELSE [err |-> OK, dr |-> Append(dr, drive)]

\* SgaFsV2.create_drive(name, alias): [err, dr]
create_drive(dr, name, alias) ==
    Bind(SgaFsDriveV2Mem(name, alias), LAMBDA drive :
    IF drive.err # OK THEN [err |-> drive.err, dr |-> dr]
    ELSE add_drive(dr, drive.val))

-----------------------------------------------------------------------------
(* SgaFsV2: operations.  Each returns [err, val, dr, fo ...]: the outcome,   *)
(* the node it answers with and the heaps it leaves behind.                 *)

FreeFolderIds(fo) == {i \in FolderIds : fo[i].kind = "free"}
FreeFileIds(fi) == {i \in FileIds : fi[i].kind = "free"}
NewId(free) == IF free = {} THEN 0 ELSE CHOOSE i \in free : \A j \in free : i <= j

\* the outcome of a step that would need one object more than the model holds
NoRoom == "<no room>"

\* SgaFsV2.makedir(path, recreate=recreate)
makedir(fo, fi, dr, path, recreate) ==
    LET p == parse(path) IN
    IF p.alias # None /\ p.path = ROOT
    THEN \* Make Drive
         Bind(create_drive(dr, <<>>, p.alias), LAMBDA c :
         IF c.err = "DriveExistsError" /\ ~recreate
         THEN [err |-> "DirectoryExists", val |-> NoneRef, dr |-> c.dr, fo |-> fo]
         ELSE IF c.err \notin {OK, "DriveExistsError"}
         THEN [err |-> c.err, val |-> NoneRef, dr |-> c.dr, fo |-> fo]
         ELSE Bind(opendir(fo, fi, c.dr, path), LAMBDA o :
              [err |-> o.err, val |-> o.val, dr |-> c.dr, fo |-> o.fo]))
    ELSE \* Make Folder
         Bind(_get_parent_and_child(fo, fi, dr, path), LAMBDA pc :
         IF pc.err # OK THEN [err |-> pc.err, val |-> NoneRef, dr |-> dr, fo |-> pc.fo]
         ELSE Bind(NewId(FreeFolderIds(pc.fo)), LAMBDA new :
              Bind(add_folder([pc.fo EXCEPT ![new] = MemFolderObject(pc.child)],
                              fi, pc.val.id, FolderRef(new)), LAMBDA a :
              \* a folder that was not added is dropped again
              Bind(IF a.err = OK THEN a.fo ELSE [a.fo EXCEPT ![new] = FreeFolder],
                   LAMBDA kept :
              IF a.err = OK /\ new = 0
              THEN [err |-> NoRoom, val |-> NoneRef, dr |-> dr, fo |-> pc.fo]
              ELSE IF a.err = "DirectoryExists" /\ ~recreate
              THEN [err |-> "DirectoryExists", val |-> NoneRef, dr |-> dr, fo |-> kept]
              ELSE IF a.err = "FileExists"
              THEN [err |-> "DirectoryExpected", val |-> NoneRef, dr |-> dr, fo |-> kept]
              ELSE IF a.err \notin {OK, "DirectoryExists"}
              THEN [err |-> a.err, val |-> NoneRef, dr |-> dr, fo |-> kept]
              ELSE Bind(opendir(kept, fi, dr, path), LAMBDA o :
                   [err |-> o.err, val |-> o.val, dr |-> dr, fo |-> o.fo])))))

\* a makedirs that takes the first drive whenever there is one
makedirs_first_drive(fo, fi, dr, path, recreate) ==
    LET p == parse(path) IN
    Bind(build(<<>>, p.alias), LAMBDA alias_path :
    IF alias_path.err # OK
    THEN [err |-> alias_path.err, val |-> NoneRef, dr |-> dr, fo |-> fo]
    ELSE IF p.alias # None
    THEN IF recreate THEN makedir(fo, fi, dr, alias_path.val, TRUE)
         ELSE Bind(opendir(fo, fi, dr, alias_path.val), LAMBDA o :
              [err |-> o.err, val |-> o.val, dr |-> dr, fo |-> o.fo])
    ELSE IF Len(dr) >= 1
    THEN Bind(opendir(fo, fi, dr, build(<<>>, dr[1].alias).val), LAMBDA o :
         [err |-> o.err, val |-> o.val, dr |-> dr, fo |-> o.fo])
    ELSE [err |-> "OperationFailed", val |-> NoneRef, dr |-> dr, fo |-> fo])

\* SgaFsV2.makedirs(path, recreate=recreate): opens the drive and returns
makedirs(fo, fi, dr, path, recreate) ==
    LET p == parse(path) IN
    Bind(build(<<>>, p.alias), LAMBDA alias_path :
    IF alias_path.err # OK
    THEN [err |-> alias_path.err, val |-> NoneRef, dr |-> dr, fo |-> fo]
    ELSE IF p.alias # None
    THEN IF recreate THEN makedir(fo, fi, dr, alias_path.val, TRUE)
         ELSE Bind(opendir(fo, fi, dr, alias_path.val), LAMBDA o :
              [err |-> o.err, val |-> o.val, dr |-> dr, fo |-> o.fo])
    ELSE IF Len(dr) = 1
    THEN Bind(opendir(fo, fi, dr, build(<<>>, dr[1].alias).val), LAMBDA o :
         [err |-> o.err, val |-> o.val, dr |-> dr, fo |-> o.fo])
    ELSE IF Len(dr) = 0
    THEN [err |-> "OperationFailed", val |-> NoneRef, dr |-> dr, fo |-> fo]
    ELSE [err |-> "InvalidPath", val |-> NoneRef, dr |-> dr, fo |-> fo])

\* SgaFsV2.getinfo(path, namespaces): [err, val (the node), info, fo]
getinfo(fo, fi, dr, path, namespaces) ==
    Bind(_getnode(fo, fi, dr, path, TRUE), LAMBDA n :
    IF n.err # OK THEN [err |-> n.err, val |-> NoneRef, info |-> NoInfo, fo |-> n.fo]
    ELSE Bind(node_getinfo(n.fo, fi, n.val, namespaces), LAMBDA i :
         [err |-> i.err, val |-> n.val, info |-> i.val, fo |-> n.fo]))

\* SgaFsV2.listdir(path): [err, val (the node), names, fo]
listdir(fo, fi, dr, path) ==
    Bind(_getnode(fo, fi, dr, path, TRUE), LAMBDA n :
    IF n.err # OK THEN [err |-> n.err, val |-> NoneRef, names |-> {}, fo |-> n.fo]
    ELSE IF ~is_dir(n.val)
    THEN [err |-> "DirectoryExpected", val |-> n.val, names |-> {}, fo |-> n.fo]
    ELSE Bind(scandir(n.fo, n.val.id), LAMBDA sc :
         IF sc.err # OK THEN [err |-> sc.err, val |-> n.val, names |-> {}, fo |-> n.fo]
         ELSE [err |-> OK, val |-> n.val, names |-> sc.val, fo |-> n.fo]))

\* SgaFsV2.openbin(path, mode) and the with-block on the handle:
\* [err, val (the node), read, fo, fi]
openbin(fo, fi, dr, path, mode, w) ==
    Bind(_getnode(fo, fi, dr, path, TRUE), LAMBDA n :
    IF n.err # OK
    THEN [err |-> n.err, val |-> NoneRef, read |-> <<>>, fo |-> n.fo, fi |-> fi]
    ELSE IF is_dir(n.val)
    THEN [err |-> "FileExpected", val |-> n.val, read |-> <<>>, fo |-> n.fo, fi |-> fi]
    ELSE Bind(file_openbin(fi[n.val.id], mode, w), LAMBDA r :
         [err |-> r.err, val |-> n.val, read |-> r.read, fo |-> n.fo,
          fi |-> [fi EXCEPT ![n.val.id] = r.val]]))

\* SgaFsV2.setinfo(path, info): [err, val (the node), fo, fi]
setinfo(fo, fi, dr, path, info) ==
    Bind(_getnode(fo, fi, dr, path, TRUE), LAMBDA n :
    IF n.err # OK THEN [err |-> n.err, val |-> NoneRef, fo |-> n.fo, fi |-> fi]
    ELSE IF n.val.t = "folder"
    THEN Bind(folder_setinfo(n.fo[n.val.id], n.fo, fi), LAMBDA r :
         [err |-> r.err, val |-> n.val, fo |-> [n.fo EXCEPT ![n.val.id] = r.val],
          fi |-> fi])
    ELSE Bind(file_setinfo(fi[n.val.id], info), LAMBDA r :
         [err |-> r.err, val |-> n.val, fo |-> n.fo,
          fi |-> [fi EXCEPT ![n.val.id] = r.val]]))

\* a removal that does not single out the drive root
remove_from_parent_unguarded(fo, fi, dr, path, root_error) ==
    LET p == parse(path) IN
    Bind(_get_parent_and_child(fo, fi, dr, p.path), LAMBDA pc :
    IF pc.err # OK THEN [err |-> pc.err, val |-> NoneRef, fo |-> pc.fo]
    ELSE [err |-> "NotImplementedError", val |-> pc.val, fo |-> pc.fo])

\* what remove and removedir share: the parent is looked up from the path
\* with its alias cut off, and no folder class implements remove_file or
\* remove_folder, so _SgaFsFolderV2's raises
remove_from_parent(fo, fi, dr, path, root_error) ==
    LET p == parse(path) IN
    IF p.path = ROOT THEN [err |-> root_error, val |-> NoneRef, fo |-> fo]
    ELSE Bind(_get_parent_and_child(fo, fi, dr, p.path), LAMBDA pc :
         IF pc.err # OK THEN [err |-> pc.err, val |-> NoneRef, fo |-> pc.fo]
         ELSE [err |-> "NotImplementedError", val |-> pc.val, fo |-> pc.fo])

\* SgaFsV2.remove(path)
remove(fo, fi, dr, path) == remove_from_parent(fo, fi, dr, path, "FileExpected")

\* SgaFsV2.removedir(path)
removedir(fo, fi, dr, path) == remove_from_parent(fo, fi, dr, path, "RemoveRootError")

-----------------------------------------------------------------------------
(* What a client hands to the operations *)

PathAliases == {None, <<"d">>}

\* the segment used at depth i of a path: "x", "x/y", "x/y/x", ...
SegmentAt(i) == IF i % 2 = 1 THEN <<"x">> ELSE <<"y">>

RECURSIVE JoinSegments(_)
JoinSegments(n) ==
    IF n = 0 THEN <<>>
    ELSE IF n = 1 THEN SegmentAt(1)
    ELSE JoinSegments(n - 1) \o <<SEP>> \o SegmentAt(n)

\* "alias:/seg/seg" or "/seg/seg"
PathOf(alias, n) ==
    (IF alias = None THEN <<>> ELSE alias \o <<":">>) \o ROOT \o JoinSegments(n)

Paths == {PathOf(a, n) : a \in PathAliases, n \in 0 .. MaxDepth}

Modes == {<<"r">>, <<"w">>}
Namespaces == {{NS_BASIC}, {NS_DETAILS, NS_ESSENCE}}
Infos == {[keys |-> {NS_DETAILS, NS_ESSENCE}, modified |-> 3, crc32 |-> 7,
           storage_type |-> "None"]}
NewNames == {<<"y">>}
Written == <<3>>                   \* what a with-block writes to a handle
NewData == <<1>>                   \* the payload of a file a client constructs
\* the names a client asks a folder for with get_child
ChildQueries == {<<"a">>, <<"x">>, <<"y">>, <<"/">>, <<>>}

-----------------------------------------------------------------------------
(* State *)

\* the operation that ran last and how it ended
Outcome(op, err) == [op |-> op, err |-> err]

\* the threads of a client, and what a thread that is inside no call holds
Threads == {1, 2}
IdleThread == [pc |-> "idle", op |-> "none", id |-> 0, lazy |-> FALSE]
NoThreads == [t \in Threads |-> IdleThread]

\* no archive file at hand, and no SgaFileV2 over one
NoArchive == [kind |-> "none"]
NoSga == [kind |-> "none"]

\* SgaFsV2(handle, parse_handle=True) over the archive, or SgaFsV2() over
\* nothing
Init ==
    /\ \/ /\ drives = LoadedDrives
          /\ folders = LoadedFolders
          /\ files = LoadedFiles
       \/ /\ drives = <<>>
          /\ folders = NoFolders
          /\ files = NoFiles
    /\ last = Outcome("__init__", OK)
    /\ threads = NoThreads
    /\ archive = NoArchive
    /\ sga = NoSga

-----------------------------------------------------------------------------
(* Operations on the filesystem, by path *)

GetInfo(path, namespaces) ==
    \E r \in {getinfo(folders, files, drives, path, namespaces)} :
    /\ folders' = r.fo
    /\ last' = Outcome("getinfo", r.err)
    /\ UNCHANGED <<threads, archive, sga>>
    /\ UNCHANGED <<drives, files>>

SetInfo(path, info) ==
    \E r \in {setinfo(folders, files, drives, path, info)} :
    /\ folders' = r.fo
    /\ files' = r.fi
    /\ last' = Outcome("setinfo", r.err)
    /\ UNCHANGED <<threads, archive, sga>>
    /\ UNCHANGED drives

OpenBin(path, mode) ==
    \E r \in {openbin(folders, files, drives, path, mode, Written)} :
    /\ folders' = r.fo
    /\ files' = r.fi
    /\ last' = Outcome("openbin", r.err)
    /\ UNCHANGED <<threads, archive, sga>>
    /\ UNCHANGED drives

ListDir(path) ==
    \E r \in {listdir(folders, files, drives, path)} :
    /\ folders' = r.fo
    /\ last' = Outcome("listdir", r.err)
    /\ UNCHANGED <<threads, archive, sga>>
    /\ UNCHANGED <<drives, files>>

MakeDir(path, recreate) ==
    \E r \in {makedir(folders, files, drives, path, recreate)} :
    /\ r.err # NoRoom
    /\ drives' = r.dr
    /\ folders' = r.fo
    /\ last' = Outcome("makedir", r.err)
    /\ UNCHANGED <<threads, archive, sga>>
    /\ UNCHANGED files

MakeDirs(path, recreate) ==
    \E r \in {makedirs(folders, files, drives, path, recreate)} :
    /\ r.err # NoRoom
    /\ drives' = r.dr
    /\ folders' = r.fo
    /\ last' = Outcome("makedirs", r.err)
    /\ UNCHANGED <<threads, archive, sga>>
    /\ UNCHANGED files

Remove(path) ==
    \E r \in {remove(folders, files, drives, path)} :
    /\ folders' = r.fo
    /\ last' = Outcome("remove", r.err)
    /\ UNCHANGED <<threads, archive, sga>>
    /\ UNCHANGED <<drives, files>>

RemoveDir(path) ==
    \E r \in {removedir(folders, files, drives, path)} :
    /\ folders' = r.fo
    /\ last' = Outcome("removedir", r.err)
    /\ UNCHANGED <<threads, archive, sga>>
    /\ UNCHANGED <<drives, files>>

\* add_drive(SgaFsDriveV2Lazy(...)) with a drive entry of the archive
AddDrive(info) ==
    \E r \in {add_drive(drives, SgaFsDriveV2Lazy(info))} :
    /\ folders # NoFolders
    /\ drives' = r.dr
    /\ last' = Outcome("add_drive", r.err)
    /\ UNCHANGED <<threads, archive, sga>>
    /\ UNCHANGED <<folders, files>>

CreateDrive(alias) ==
    \E r \in {create_drive(drives, <<>>, alias)} :
    /\ drives' = r.dr
    /\ last' = Outcome("create_drive", r.err)
    /\ UNCHANGED <<threads, archive, sga>>
    /\ UNCHANGED <<folders, files>>

-----------------------------------------------------------------------------
(* Operations on a node a client holds: any folder object, and the file     *)
(* objects of the archive (a file a client added is reached by its path)    *)

\* folder.add_folder(SgaFsFolderV2Mem(name))
FolderAddFolder(id, name) ==
    \E new \in {NewId(FreeFolderIds(folders))} :
    \E r \in {add_folder([folders EXCEPT ![new] = MemFolderObject(name)], files, id,
                         FolderRef(new))} :
    /\ folders[id].kind # "free"
    /\ ~(r.err = OK /\ new = 0)
    /\ folders' = IF r.err = OK THEN r.fo ELSE [r.fo EXCEPT ![new] = FreeFolder]
    /\ last' = Outcome("add_folder", r.err)
    /\ UNCHANGED <<threads, archive, sga>>
    /\ UNCHANGED <<drives, files>>

\* folder.add_file(SgaFsFileV2Mem(name, data=NewData))
FolderAddFile(id, name) ==
    \E new \in {NewId(FreeFileIds(files))} :
    \E made \in {[files EXCEPT
                     ![new] = MemFileObject(SgaFsFileV2Mem(name, "None", NewData,
                                                           NoneInt, NoneInt))]} :
    \E r \in {add_file(folders, made, id, FileRef(new))} :
    /\ folders[id].kind # "free"
    /\ ~(r.err = OK /\ new = 0)
    /\ folders' = r.fo
    /\ files' = IF r.err = OK THEN made ELSE files
    /\ last' = Outcome("add_file", r.err)
    /\ UNCHANGED <<threads, archive, sga>>
    /\ UNCHANGED drives

\* with file.openbin(mode) as h: h.write(Written) or h.read()
FileOpenBin(id, mode) ==
    \E r \in {file_openbin(files[id], mode, Written)} :
    /\ files[id].kind # "free"
    /\ files' = [files EXCEPT ![id] = r.val]
    /\ last' = Outcome("file.openbin", r.err)
    /\ UNCHANGED <<threads, archive, sga>>
    /\ UNCHANGED <<drives, folders>>

FileSetInfo(id, info) ==
    \E r \in {file_setinfo(files[id], info)} :
    /\ files[id].kind # "free"
    /\ files' = [files EXCEPT ![id] = r.val]
    /\ last' = Outcome("file.setinfo", r.err)
    /\ UNCHANGED <<threads, archive, sga>>
    /\ UNCHANGED <<drives, folders>>

FileVerifyCrc32(id, error) ==
    \E r \in {file_verify_crc32(files[id], error)} :
    /\ files[id].kind # "free"
    /\ last' = Outcome("verify_crc32", r.err)
    /\ UNCHANGED <<threads, archive, sga>>
    /\ UNCHANGED <<drives, folders, files>>

FileRecalculateCrc32(id) ==
    \E r \in {file_recalculate_crc32(files[id])} :
    /\ files[id].kind # "free"
    /\ files' = [files EXCEPT ![id] = r.val]
    /\ last' = Outcome("recalculate_crc32", r.err)
    /\ UNCHANGED <<threads, archive, sga>>
    /\ UNCHANGED <<drives, folders>>

Next ==
    \/ \E path \in Paths, namespaces \in Namespaces : GetInfo(path, namespaces)
    \/ \E path \in Paths, info \in Infos : SetInfo(path, info)
    \/ \E path \in Paths, mode \in Modes : OpenBin(path, mode)
    \/ \E path \in Paths : ListDir(path)
    \/ \E path \in Paths, recreate \in BOOLEAN : MakeDir(path, recreate)
    \/ \E path \in Paths, recreate \in BOOLEAN : MakeDirs(path, recreate)
    \/ \E path \in Paths : Remove(path)
    \/ \E path \in Paths : RemoveDir(path)
    \/ \E info \in 0 .. (Len(LoadedDrives) - 1) : AddDrive(info)
    \/ \E alias \in PathAliases \ {None} : CreateDrive(alias)
    \/ \E id \in FolderIds, name \in NewNames : FolderAddFolder(id, name)
    \/ \E id \in FolderIds, name \in NewNames : FolderAddFile(id, name)
    \/ \E id \in ArchiveFileIds, mode \in Modes : FileOpenBin(id, mode)
    \/ \E id \in ArchiveFileIds, info \in Infos : FileSetInfo(id, info)
    \/ \E id \in FileIds, error \in BOOLEAN : FileVerifyCrc32(id, error)
    \/ \E id \in FileIds : FileRecalculateCrc32(id)

Spec == Init /\ [][Next]_vars

\* the operations by path and the growth of folders over every archive of the
\* model: no drive, the drive "d" alone, or "d" and "e"
InitDrives ==
    \/ Init
    \/ /\ drives = LoadedTwoDrives
       /\ folders = LoadedFolders
       /\ files = LoadedFiles
       /\ last = Outcome("__init__", OK)
       /\ threads = NoThreads
       /\ archive = NoArchive
       /\ sga = NoSga

NextDrives ==
    \/ \E path \in Paths, namespaces \in Namespaces : GetInfo(path, namespaces)
    \/ \E path \in Paths : ListDir(path)
    \/ \E path \in Paths, recreate \in BOOLEAN : MakeDir(path, recreate)
    \/ \E path \in Paths, recreate \in BOOLEAN : MakeDirs(path, recreate)
    \/ \E path \in Paths : RemoveDir(path)
    \/ \E info \in 0 .. (Len(TocDrives) - 1) : AddDrive(info)
    \/ \E alias \in PathAliases \ {None} : CreateDrive(alias)
    \/ \E id \in FolderIds, name \in NewNames : FolderAddFolder(id, name)

SpecDrives == InitDrives /\ [][NextDrives]_vars

-----------------------------------------------------------------------------
(* Two threads on the file objects.  A step is what a thread does between   *)
(* two points where the interpreter may switch threads and the other thread *)
(* can tell the difference: a read or a write of a field of the node, the   *)
(* taking of the backing's RLock, the leaving of a with-block.              *)

\* the calls a thread makes on a file object: openbin('r'), openbin('w'),
\* getinfo(['basic']), setinfo(info), verify_crc32(False), recalculate_crc32()
ThreadOps == {"openbin_r", "openbin_w", "getinfo", "setinfo", "verify_crc32",
              "recalculate_crc32"}
\* the calls SgaFsFileV2 converts the file for
Mutating == {"openbin_w", "setinfo", "recalculate_crc32"}
OpMode(op) == IF op = "openbin_w" THEN <<"w">> ELSE <<"r">>

\* whether the backing of f runs op inside `with self._lock` (verify_crc32
\* and recalculate_crc32 of an in-memory file take it through openbin; an
\* in-memory file's getinfo and setinfo take no lock; a lazy file refuses a
\* mutation before it takes any)
TakesLock(f, op) ==
    IF f.backing = "lazy" THEN op \in {"getinfo", "openbin_r", "verify_crc32"}
    ELSE op \in {"openbin_r", "openbin_w", "verify_crc32", "recalculate_crc32"}

\* the RLock of the backing of file id is free for thread t: a lock is held
\* across steps only by a thread inside the with-block of openbin
LockFree(id, t) ==
    \A u \in Threads \ {t} : ~(threads[u].pc = "in_with" /\ threads[u].id = id)

\* what op does once it has reached the backing of f: [err, val]
backing_call(f, op) ==
    IF op = "getinfo" THEN [err |-> file_getinfo(f, {NS_BASIC}).err, val |-> f]
    ELSE IF op = "setinfo" THEN file_setinfo(f, CHOOSE info \in Infos : TRUE)
    ELSE IF op = "verify_crc32" THEN [err |-> file_verify_crc32(f, FALSE).err, val |-> f]
    ELSE IF op = "recalculate_crc32" THEN file_recalculate_crc32(f)
    ELSE Bind(file_openbin(f, OpMode(op), Written), LAMBDA r :
              [err |-> r.err, val |-> r.val])

\* thread t calls op on the file object id
ThreadCall(t, id, op) ==
    /\ threads[t].pc = "idle"
    /\ files[id].kind # "free"
    /\ threads' = [threads EXCEPT ![t] =
           [pc |-> IF files[id].kind = "wrapper" /\ op \in Mutating
                   THEN "convert" ELSE "backing",
            op |-> op, id |-> id,
            lazy |-> files[id]._is_lazy /\ files[id].backing = "lazy"]]
    /\ UNCHANGED <<drives, folders, files, last, archive, sga>>

\* _convert_to_memfile: `if not self._is_lazy: return`
ThreadConvertCheck(t) ==
    /\ threads[t].pc = "convert"
    /\ threads' = [threads EXCEPT ![t].pc =
           IF files[threads[t].id]._is_lazy THEN "clear" ELSE "backing"]
    /\ UNCHANGED <<drives, folders, files, last, archive, sga>>

\* _convert_to_memfile: `self._is_lazy = False`
ThreadConvertClear(t) ==
    /\ threads[t].pc = "clear"
    /\ files' = [files EXCEPT ![threads[t].id]._is_lazy = FALSE]
    /\ threads' = [threads EXCEPT ![t].pc = "getinfo"]
    /\ UNCHANGED <<drives, folders, last, archive, sga>>

\* _convert_to_memfile from `info = self.getinfo(...)` on: the getinfo of the
\* lazy backing takes its lock and raises, which ends the call
ThreadConvertGetInfo(t) ==
    \E id \in {threads[t].id} :
    \E r \in {_convert_to_memfile([files[id] EXCEPT !._is_lazy = TRUE])} :
    /\ threads[t].pc = "getinfo"
    /\ LockFree(id, t)
    /\ files' = [files EXCEPT ![id] = r.val]
    /\ threads' = [threads EXCEPT ![t] =
           IF r.err = OK THEN [@ EXCEPT !.pc = "backing"] ELSE IdleThread]
    /\ last' = IF r.err = OK THEN last ELSE Outcome(threads[t].op, r.err)
    /\ UNCHANGED <<drives, folders, archive, sga>>

\* openbin of the backing: `with self._lock: yield ...`, the thread is now
\* inside its own with-block and holds the handle
ThreadEnter(t) ==
    \E id \in {threads[t].id} :
    /\ threads[t].pc = "backing"
    /\ threads[t].op \in {"openbin_r", "openbin_w"}
    /\ backing_call(files[id], threads[t].op).err = OK
    /\ LockFree(id, t)
    /\ threads' = [threads EXCEPT ![t].pc = "in_with"]
    /\ UNCHANGED <<drives, folders, files, last, archive, sga>>

\* the body of the with-block (a write of Written in a writing mode, a read
\* otherwise) and its end, which gives the lock back
ThreadExit(t) ==
    \E id \in {threads[t].id} :
    \E r \in {backing_call(files[id], threads[t].op)} :
    /\ threads[t].pc = "in_with"
    /\ files' = [files EXCEPT ![id] = r.val]
    /\ threads' = [threads EXCEPT ![t] = IdleThread]
    /\ last' = Outcome(threads[t].op, r.err)
    /\ UNCHANGED <<drives, folders, archive, sga>>

\* every other call on the backing, and an openbin the backing refuses: it
\* waits for the lock where the backing takes one, runs and returns
ThreadReturn(t) ==
    \E id \in {threads[t].id} :
    \E r \in {backing_call(files[id], threads[t].op)} :
    /\ threads[t].pc = "backing"
    /\ ~(threads[t].op \in {"openbin_r", "openbin_w"} /\ r.err = OK)
    /\ TakesLock(files[id], threads[t].op) => LockFree(id, t)
    /\ files' = [files EXCEPT ![id] = r.val]
    /\ threads' = [threads EXCEPT ![t] = IdleThread]
    /\ last' = Outcome(threads[t].op, r.err)
    /\ UNCHANGED <<drives, folders, archive, sga>>

\* the loaded archive, and with it or not a file a client has constructed
InitThreads ==
    /\ drives = LoadedDrives
    /\ folders = LoadedFolders
    /\ \/ files = LoadedFiles
       \/ \E id \in FileIds \ ArchiveFileIds :
             files = [LoadedFiles EXCEPT ![id] =
                         MemFileObject(SgaFsFileV2Mem(<<"y">>, "None", NewData,
                                                      NoneInt, NoneInt))]
    /\ last = Outcome("__init__", OK)
    /\ threads = NoThreads
    /\ archive = NoArchive
    /\ sga = NoSga

NextThreads ==
    \E t \in Threads :
       \/ \E id \in FileIds, op \in ThreadOps : ThreadCall(t, id, op)
       \/ ThreadConvertCheck(t)
       \/ ThreadConvertClear(t)
       \/ ThreadConvertGetInfo(t)
       \/ ThreadEnter(t)
       \/ ThreadExit(t)
       \/ ThreadReturn(t)

SpecThreads == InitThreads /\ [][NextThreads]_vars

-----------------------------------------------------------------------------
(* serialization.py: opening an archive file.  An archive is the fields the *)
(* code reads from the stream: whether it is writable, whether the MD5 of   *)
(* the file and of the TOC equal the stored ones, the four table offsets    *)
(* and the file count of the TOC header, the end of the TOC window, the     *)
(* compressed size of each file record, the length of the data block, and   *)
(* for each file its stored data header and its decompressed payload.       *)

\* LazySgaTocFileDataHeaderV2Dow.Meta.SIZE
DataHeaderSize == 264
\* _SIZE of a file record whose _FLAGS field is flags_size bytes wide
FileRecordSize(flags_size) == 4 + flags_size + 4 + 4 + 4
\* GAME_FORMAT_TOC_FILE, in the order of the dict
GAME_FORMAT_TOC_FILE == <<
    [game_format |-> "DawnOfWar", _SIZE |-> FileRecordSize(4)],
    [game_format |-> "ImpossibleCreatures", _SIZE |-> FileRecordSize(1)] >>

\* SgaTocV2._determine_next_header_block_ptr: the loop over ptrs
RECURSIVE NextBlockPtr(_, _, _)
NextBlockPtr(ptrs, index, smallest) ==
    IF ptrs = <<>> THEN smallest
    ELSE NextBlockPtr(Tail(ptrs), index,
                      IF index < Head(ptrs) /\ Head(ptrs) < smallest
                      THEN Head(ptrs) ELSE smallest)

_determine_next_header_block_ptr(header, toc_end, index) ==
    NextBlockPtr(<<header.folder, header.root_folder, header.file, header.name>>,
                 index, toc_end)

\* `_SIZE == file_block_size / file_count`: Python's true division gives a
\* float that equals the int _SIZE exactly when the division has no rest
quotient_is_floor(file_block_size, file_count, _SIZE) ==
    file_block_size \div file_count = _SIZE
quotient_is(file_block_size, file_count, _SIZE) ==
    file_block_size = _SIZE * file_count

\* SgaTocV2._determine_game: the loop over GAME_FORMAT_TOC_FILE
RECURSIVE MatchFormat(_, _, _)
MatchFormat(formats, file_block_size, file_count) ==
    IF formats = <<>> THEN Raise("RelicToolError")
    ELSE IF quotient_is(file_block_size, file_count, Head(formats)._SIZE)
         THEN Return(Head(formats).game_format)
    ELSE MatchFormat(Tail(formats), file_block_size, file_count)

_determine_game(header, toc_end) ==
    IF header.file_count = 0 THEN Return("Unknown")
    ELSE MatchFormat(GAME_FORMAT_TOC_FILE,
                     _determine_next_header_block_ptr(header, toc_end, header.file)
                         - header.file,
                     header.file_count)

\* SgaFileV2.__determine_expected_data_window_size: the loop over the files
RECURSIVE total_data_size(_)
total_data_size(sizes) ==
    IF sizes = <<>> THEN 0 ELSE Head(sizes) + total_data_size(Tail(sizes))

determine_expected_data_window_size_headerless(a) ==
    total_data_size(a.compressed_size)
determine_expected_data_window_size(a) ==
    Len(a.compressed_size) * DataHeaderSize + total_data_size(a.compressed_size)

\* SgaFileV2(parent): [err, val]
SgaFileV2(a) ==
    Bind(_determine_game(a.header, a.toc_end), LAMBDA game :
    Bind(determine_expected_data_window_size(a), LAMBDA expected :
         IF game.err # OK THEN [err |-> game.err, val |-> NoSga]
         ELSE Return([kind |-> "SgaFileV2",
                      game_format |-> game.val,
                      _has_file_data_headers |-> expected <= a.data_len,
                      _has_safe_file_data_headers |-> expected = a.data_len,
                      _header_window |-> [start |-> a.toc_pos, size |-> a.toc_end],
                      _data_window |-> [start |-> a.data_pos, size |-> a.data_len],
                      attrs |-> EmptyMap,
                      loaded |-> <<>>])))

\* A stored data header is the bytes of its name, its crc32 and modified
\* values, and for each of the three what reading it through its property
\* raises: "None" or the class of the error.
NoRaise == [name |-> "None", crc32 |-> "None", modified |-> "None"]

\* LazySgaTocFileDataHeaderV2Dow.header_is_valid: False when reading the
\* name raises RelicToolError or UnicodeDecodeError, or reading crc32 or
\* modified raises RelicToolError; any other error leaves the inner try
\* statements, is caught and logged by the outer one, and the function goes
\* on to its last statement, return True
header_is_valid(stored) ==
    IF stored.raises.name \in {"RelicToolError", "UnicodeDecodeError"} THEN FALSE
    ELSE IF stored.raises.name # "None" THEN TRUE
    ELSE IF stored.raises.crc32 = "RelicToolError" THEN FALSE
    ELSE IF stored.raises.crc32 # "None" THEN TRUE
    ELSE IF stored.raises.modified = "RelicToolError" THEN FALSE
    ELSE TRUE

\* SgaTocFileDataV2Dow(toc_file, name_window, data_window, has_data_header,
\* has_safe_data_header) for file i of a: the data header it keeps, and
\* whether the constructor has read (and decompressed) the payload; with
\* them the window over the data block it takes the stored header from, and
\* the window data() takes the payload from
SgaTocFileDataV2Dow(a, i, has_data_header, has_safe_data_header) ==
    LET windows == [_data_header_window |->
                        [start |-> a.data_offset[i] - DataHeaderSize,
                         size |-> DataHeaderSize],
                    data |-> [start |-> a.data_offset[i],
                              size |-> a.compressed_size[i]]]
    IN IF has_safe_data_header
          \/ (has_data_header /\ header_is_valid(a.data[i].header))
       THEN [_data_header |-> [crc32 |-> a.data[i].header.crc32,
                               modified |-> a.data[i].header.modified],
             read |-> FALSE,
             _data_header_window |-> windows._data_header_window,
             data |-> windows.data]
       ELSE [_data_header |-> [crc32 |-> crc32(a.data[i].payload), modified |-> Now],
             read |-> TRUE,
             _data_header_window |-> windows._data_header_window,
             data |-> windows.data]

\* SgaFsV2._load_lazy(file): the SgaTocFileDataV2Dow of every file; neither
\* file.has_file_data_header nor file.has_safe_file_data_header is passed on
_load_lazy(a, file) ==
    [i \in 1 .. a.header.file_count |-> SgaTocFileDataV2Dow(a, i, FALSE, FALSE)]

\* the archives that are opened
MaxTocFiles == 2
MaxCompressed == 2
\* where the TOC starts in an archive: after the magic word, the version and
\* the header
TocPos == 180
\* the data offsets of files of the given compressed sizes in a data block
\* that holds each header right before its payload
PackedOffsets(sizes) ==
    [i \in 1 .. Len(sizes) |->
        i * DataHeaderSize + total_data_size(SubSeq(sizes, 1, i - 1))]
\* a Dawn of War archive of n files of one byte each, with all its headers:
\* the TOC, then the data block, in it each header before its payload
BaseArchive(n) ==
    [kind |-> "sga",
     writable |-> FALSE, file_md5_ok |-> TRUE, toc_md5_ok |-> TRUE,
     header |-> [folder |-> 0, root_folder |-> 0, file |-> 0,
                 name |-> n * FileRecordSize(4), file_count |-> n],
     toc_end |-> n * FileRecordSize(4),
     toc_pos |-> TocPos,
     data_pos |-> TocPos + n * FileRecordSize(4),
     data_offset |-> PackedOffsets([i \in 1 .. n |-> 1]),
     compressed_size |-> [i \in 1 .. n |-> 1],
     data_len |-> n * DataHeaderSize + n,
     data |-> [i \in 1 .. n |->
                  [header |-> [name |-> <<97>>, raises |-> NoRaise,
                               crc32 |-> crc32(<<i>>),
                               modified |-> 5],
                   payload |-> <<i>>]]]

\* TOC headers: every table starts inside the TOC window
TocPtrs == {0, 17, 20, 34, 37, 40, 41, 54, 60}
TocEnds == {41, 60}
LayoutArchives ==
    {a \in {[BaseArchive(n) EXCEPT
                !.header = [folder |-> p1, root_folder |-> p2, file |-> p3,
                            name |-> p4, file_count |-> n],
                !.toc_end = e,
                !.data_pos = TocPos + e] :
            p1 \in TocPtrs, p2 \in TocPtrs, p3 \in {0, 20}, p4 \in TocPtrs,
            n \in 0 .. MaxTocFiles, e \in TocEnds} :
        /\ a.header.folder <= a.toc_end
        /\ a.header.root_folder <= a.toc_end
        /\ a.header.name <= a.toc_end}

\* data blocks of every length against files of every compressed size
SizeArchives ==
    {[BaseArchive(Len(cs)) EXCEPT !.compressed_size = cs, !.data_len = d,
                                  !.data_offset = PackedOffsets(cs)] :
        cs \in UNION {[1 .. n -> 0 .. MaxCompressed] : n \in 0 .. MaxTocFiles},
        d \in 0 .. (MaxTocFiles * (DataHeaderSize + MaxCompressed) + 1)}

\* files whose stored header is readable or not and holds the CRC32 of the
\* payload or another value, in a data block one byte short of, exactly as
\* long as, or one byte longer than the headers and payloads need
HeaderArchives ==
    UNION {{[BaseArchive(n) EXCEPT
                !.data = [i \in 1 .. n |->
                             [header |-> [name |-> <<97>>,
                                          raises |-> IF rd[i] THEN NoRaise
                                                     ELSE [NoRaise EXCEPT
                                                           !.name = "RelicToolError"],
                                          crc32 |-> (crc32(<<i>>) + off[i]) % 8,
                                          modified |-> 5],
                              payload |-> <<i>>]],
                !.data_len = n * DataHeaderSize + n + d - 1] :
            rd \in [1 .. n -> BOOLEAN], off \in [1 .. n -> 0 .. 1], d \in 0 .. 2} :
           n \in 1 .. MaxTocFiles}

\* files at every offset of the data block around the first and the second
\* payload, in data blocks that hold n payloads, one payload more, or n
\* payloads and their headers, starting at or one byte before the end of
\* the TOC
DataOffsets == {0, 1, DataHeaderSize - 1, DataHeaderSize, DataHeaderSize + 1,
                2 * DataHeaderSize + 1}
OffsetArchives ==
    {[BaseArchive(Len(offsets)) EXCEPT
         !.data_offset = offsets,
         !.data_len = d,
         !.data_pos = @ - before] :
        offsets \in UNION {[1 .. n -> DataOffsets] : n \in 1 .. MaxTocFiles},
        d \in {1, 2, 3, DataHeaderSize + 1, 2 * DataHeaderSize + 2},
        before \in 0 .. 1}

\* SgaFileV2(handle)
Open ==
    \E r \in {SgaFileV2(archive)} :
    /\ archive.kind = "sga"
    /\ sga = NoSga
    /\ sga' = r.val
    /\ last' = Outcome("SgaFileV2", r.err)
    /\ UNCHANGED <<drives, folders, files, threads, archive>>

\* SgaFsV2._load_lazy(SgaFileV2(handle))
LoadLazy ==
    /\ sga.kind = "SgaFileV2"
    /\ sga.loaded = <<>>
    /\ sga' = [sga EXCEPT !.loaded = _load_lazy(archive, sga)]
    /\ last' = Outcome("_load_lazy", OK)
    /\ UNCHANGED <<drives, folders, files, threads, archive>>

InitOpen ==
    /\ \/ archive \in LayoutArchives
       \/ archive \in SizeArchives
       \/ archive \in HeaderArchives
       \/ archive \in OffsetArchives
    /\ sga = NoSga
    /\ drives = <<>>
    /\ folders = NoFolders
    /\ files = NoFiles
    /\ threads = NoThreads
    /\ last = Outcome("none", OK)

NextOpen == Open \/ LoadLazy

SpecOpen == InitOpen /\ [][NextOpen]_vars

-----------------------------------------------------------------------------
(* serialization.py: the MD5 checks of an opened archive *)

\* SgaFileV2.__verify(cached, error, hasher, hash_kwargs, expected,
\* cache_name) on the object s over the stream a, matches telling whether
\* the hash of the stream equals expected: [err, val, s, hashed]
verify_trusting_cache(s, a, cached, error, matches, cache_name) ==
    IF a.writable \/ ~cached \/ cache_name \notin DOMAIN s.attrs
    THEN [err |-> OK, val |-> matches, hashed |-> TRUE,
          s |-> [s EXCEPT !.attrs = DictSet(@, cache_name, matches)]]
    ELSE [err |-> OK, val |-> s.attrs[cache_name], s |-> s, hashed |-> FALSE]
__verify(s, a, cached, error, matches, cache_name) ==
    IF a.writable \/ error \/ ~cached \/ cache_name \notin DOMAIN s.attrs
    THEN IF error /\ ~matches                        \* hasher.validate raises
         THEN [err |-> "HashMismatch", val |-> FALSE, s |-> s, hashed |-> TRUE]
         ELSE [err |-> OK, val |-> matches, hashed |-> TRUE,
               s |-> [s EXCEPT !.attrs = DictSet(@, cache_name, matches)]]
    ELSE [err |-> OK, val |-> s.attrs[cache_name], s |-> s, hashed |-> FALSE]

verify_file(s, a, cached, error) ==
    __verify(s, a, cached, error, a.file_md5_ok, "__verified_file")
verify_header(s, a, cached, error) ==
    __verify(s, a, cached, error, a.toc_md5_ok, "__verified_header")

\* what a call of verify_file or verify_header did: how it ended, what it
\* returned and whether it hashed the stream
Verified(op, r) == [op |-> op, err |-> r.err, val |-> r.val, hashed |-> r.hashed]

VerifyFile(cached, error) ==
    \E r \in {verify_file(sga, archive, cached, error)} :
    /\ sga # NoSga
    /\ sga' = r.s
    /\ last' = Verified("verify_file", r)
    /\ UNCHANGED <<drives, folders, files, threads, archive>>

VerifyHeader(cached, error) ==
    \E r \in {verify_header(sga, archive, cached, error)} :
    /\ sga # NoSga
    /\ sga' = r.s
    /\ last' = Verified("verify_header", r)
    /\ UNCHANGED <<drives, folders, files, threads, archive>>

\* the bytes of the archive change, through the stream when it is writable
\* and under it when it is not: the hashes now match the stored ones or not
StreamChange(file_md5_ok, toc_md5_ok) ==
    /\ sga # NoSga
    /\ archive' = [archive EXCEPT !.file_md5_ok = file_md5_ok,
                                  !.toc_md5_ok = toc_md5_ok]
    /\ archive' # archive
    /\ UNCHANGED <<drives, folders, files, threads, sga, last>>

\* SgaFileV2(handle) over a read-only or a writable stream whose hashes
\* match the stored ones or not
InitVerify ==
    /\ archive \in {[BaseArchive(1) EXCEPT !.writable = w, !.file_md5_ok = f,
                                            !.toc_md5_ok = t] :
                     w \in BOOLEAN, f \in BOOLEAN, t \in BOOLEAN}
    /\ sga = SgaFileV2(archive).val
    /\ drives = <<>>
    /\ folders = NoFolders
    /\ files = NoFiles
    /\ threads = NoThreads
    /\ last = Outcome("SgaFileV2", OK)

NextVerify ==
    \/ \E cached \in BOOLEAN, error \in BOOLEAN : VerifyFile(cached, error)
    \/ \E cached \in BOOLEAN, error \in BOOLEAN : VerifyHeader(cached, error)
    \/ \E file_md5_ok \in BOOLEAN, toc_md5_ok \in BOOLEAN :
          StreamChange(file_md5_ok, toc_md5_ok)

SpecVerify == InitVerify /\ [][NextVerify]_vars

-----------------------------------------------------------------------------
(* serialization.py: a file record of the TOC, as the bytes of the stream   *)
(* it is a view of                                                          *)

\* int.to_bytes(size, "little", signed=False) and int.from_bytes
RECURSIVE to_bytes(_, _)
to_bytes(value, size) ==
    IF size = 0 THEN <<>> ELSE <<value % 256>> \o to_bytes(value \div 256, size - 1)
RECURSIVE from_bytes(_)
from_bytes(buffer) ==
    IF buffer = <<>> THEN 0 ELSE Head(buffer) + 256 * from_bytes(Tail(buffer))

\* self._serializer.int.read(offset, size, byteorder="little", signed=False)
int_read(buffer, offset, size) == from_bytes(SubSeq(buffer, offset + 1, offset + size))
\* self._serializer.int.write(value, offset, size, ...): [err, val]
int_write(buffer, value, offset, size) ==
    IF value < 0 \/ value \div (256 ^ (size - 1)) >= 256 THEN [err |-> "OverflowError", val |-> buffer]
    ELSE Return(SubSeq(buffer, 1, offset) \o to_bytes(value, size)
                    \o SubSeq(buffer, offset + size + 1, Len(buffer)))

\* Python's a & b and a | b on ints that are not negative
RECURSIVE BitAnd(_, _)
BitAnd(a, b) ==
    IF a = 0 \/ b = 0 THEN 0
    ELSE (a % 2) * (b % 2) + 2 * BitAnd(a \div 2, b \div 2)
RECURSIVE BitOr(_, _)
BitOr(a, b) ==
    IF a = 0 THEN b
    ELSE IF b = 0 THEN a
    ELSE (IF a % 2 = 1 \/ b % 2 = 1 THEN 1 ELSE 0) + 2 * BitOr(a \div 2, b \div 2)
\* a & ~mask: ~mask is negative and keeps every bit of a that mask lacks
BitAndNot(a, mask) == a - BitAnd(a, mask)

_STORAGE_TYPE_MASK == 240
_STORAGE_TYPE_SHIFT == 4
\* the fields of a record: (offset, size) of _NAME_OFFSET and _FLAGS
_NAME_OFFSET == <<0, 4>>
_FLAGS(flags_size) == <<_NAME_OFFSET[1] + _NAME_OFFSET[2], flags_size>>
\* relic.sga.core.StorageType: the names of the values 0, 1 and 2
StorageType == <<"STORE", "DEFLATE_BUFFER", "DEFLATE_STREAM">>
StorageTypeValue(t) == CHOOSE v \in 0 .. 2 : StorageType[v + 1] = t

\* _SgaTocFileV2.storage_type: [err, val]
storage_type(buffer, flags_size) ==
    Bind(int_read(buffer, _FLAGS(flags_size)[1], _FLAGS(flags_size)[2]), LAMBDA value :
    Bind(BitAnd(value, _STORAGE_TYPE_MASK) \div (2 ^ _STORAGE_TYPE_SHIFT), LAMBDA v :
         IF v + 1 \in DOMAIN StorageType THEN Return(StorageType[v + 1])
         ELSE [err |-> "ValueError", val |-> "None"]))

\* _SgaTocFileV2.storage_type = value: [err, val], val the bytes it leaves
storage_type_setter_keeping(buffer, flags_size, value) ==
    int_write(buffer,
              BitOr(int_read(buffer, _FLAGS(flags_size)[1], _FLAGS(flags_size)[2]),
                    StorageTypeValue(value) * (2 ^ _STORAGE_TYPE_SHIFT)),
              _FLAGS(flags_size)[1], _FLAGS(flags_size)[2])
storage_type_setter(buffer, flags_size, value) ==
    Bind(StorageTypeValue(value) * (2 ^ _STORAGE_TYPE_SHIFT), LAMBDA flag :
    Bind(int_read(buffer, _FLAGS(flags_size)[1], _FLAGS(flags_size)[2]), LAMBDA buffer_value :
         int_write(buffer, BitOr(BitAndNot(buffer_value, _STORAGE_TYPE_MASK), flag),
                   _FLAGS(flags_size)[1], _FLAGS(flags_size)[2])))

\* the record of a file with the given flags: name_offset, flags,
\* data_offset, compressed_size and decompressed_size, every byte of the
\* other fields different from every other
FileRecord(flags_size, flags) ==
    [kind |-> "record", flags_size |-> flags_size,
     buffer |-> <<1, 2, 3, 4>> \o to_bytes(flags, flags_size)
                    \o <<5, 6, 7, 8, 9, 10, 11, 12, 13, 14, 15, 16>>]

\* flags of every low byte, alone or under higher bits of a 4-byte field
Records ==
    {FileRecord(1, low) : low \in 0 .. 255}
    \cup {FileRecord(4, low + high) :
              low \in 0 .. 255, high \in {0, 2 ^ 8, 2 ^ 30 + 2 ^ 9}}

\* file.storage_type = value
SetStorageType(value) ==
    \E r \in {storage_type_setter(archive.buffer, archive.flags_size, value)} :
    /\ archive' = [archive EXCEPT !.buffer = r.val]
    /\ last' = [op |-> "storage_type.setter", err |-> r.err, val |-> value]
    /\ UNCHANGED <<drives, folders, files, threads, sga>>

\* file.storage_type
GetStorageType ==
    \E r \in {storage_type(archive.buffer, archive.flags_size)} :
    /\ last' = [op |-> "storage_type", err |-> r.err, val |-> r.val]
    /\ UNCHANGED <<drives, folders, files, threads, archive, sga>>

InitRecords ==
    /\ archive \in Records
    /\ sga = NoSga
    /\ drives = <<>>
    /\ folders = NoFolders
    /\ files = NoFiles
    /\ threads = NoThreads
    /\ last = [op |-> "none", err |-> OK, val |-> "None"]

NextRecords ==
    \/ \E value \in {StorageType[i] : i \in DOMAIN StorageType} : SetStorageType(value)
    \/ GetStorageType

SpecRecords == InitRecords /\ [][NextRecords]_vars

-----------------------------------------------------------------------------
(* filesystem.py: saving a filesystem.  A stream is the sequence of its     *)
(* bytes; sga is the SgaFsV2 object, archive holds the stream it was built  *)
(* over (handle) and the stream a caller may hand to save (out).            *)

\* longest stream, in bytes, and the largest byte
MaxStream == 2
MaxByte == 1
Streams == UNION {[1 .. n -> 0 .. MaxByte] : n \in 0 .. MaxStream}

\* SgaFsV2Packer.serialize(sga, handle): [err, val], val the bytes it leaves
\* in handle
serialize(s, handle) == [err |-> "NotImplementedError", val |-> handle]

\* with BytesIO() as temp: SgaFsV2Packer.serialize(self, temp); temp.seek(0)
save_to_temp(s) ==
    Bind(serialize(s, <<>>), LAMBDA temp :
         IF temp.err # OK THEN [err |-> temp.err, val |-> "None"]
         ELSE Return("None"))

\* SgaFsV2.save(out): [err, handle, out], the bytes of the two streams after
\* the call; out_given is false for save() and save(None)
save(s, a, out_given) ==
    IF s._stream = "None" /\ ~out_given
    THEN [err |-> "RelicToolError", handle |-> a.handle, out |-> a.out]
    ELSE IF ~out_given /\ s._lazy_file # "None"
    THEN [err |-> save_to_temp(s).err, handle |-> a.handle, out |-> a.out]
    ELSE [err |-> OK, handle |-> a.handle, out |-> a.out]

\* SgaFsV2(handle, parse_handle): the fields save reads
SgaFsV2(handle, parse_handle) ==
    [kind |-> "SgaFsV2",
     _stream |-> handle,
     _lazy_file |-> IF parse_handle THEN "SgaFileV2" ELSE "None"]

\* fs.save(out) and fs.save()
Save(out_given) ==
    \E r \in {save(sga, archive, out_given)} :
    /\ sga.kind = "SgaFsV2"
    /\ archive' = [archive EXCEPT !.handle = r.handle, !.out = r.out]
    /\ last' = [op |-> "save", err |-> r.err, out |-> out_given]
    /\ UNCHANGED <<drives, folders, files, threads, sga>>

\* the caller takes another stream to save to
NewOut(bytes) ==
    /\ sga.kind = "SgaFsV2"
    /\ bytes # archive.out
    /\ archive' = [archive EXCEPT !.out = bytes]
    /\ last' = [op |-> "BytesIO", err |-> OK, out |-> TRUE]
    /\ UNCHANGED <<drives, folders, files, threads, sga>>

\* SgaFsV2(), SgaFsV2(handle) and SgaFsV2(handle, parse_handle=True), with a
\* stream of any bytes at hand to save to
InitSave ==
    /\ \E handle \in Streams, out \in Streams :
       \/ /\ sga = SgaFsV2("None", FALSE)
          /\ archive = [kind |-> "streams", handle |-> <<>>, out |-> out]
       \/ \E parse_handle \in BOOLEAN :
          /\ sga = SgaFsV2("handle", parse_handle)
          /\ archive = [kind |-> "streams", handle |-> handle, out |-> out]
    /\ drives = <<>>
    /\ folders = NoFolders
    /\ files = NoFiles
    /\ threads = NoThreads
    /\ last = [op |-> "__init__", err |-> OK, out |-> FALSE]

NextSave ==
    \/ \E out_given \in BOOLEAN : Save(out_given)
    \/ \E bytes \in Streams : NewOut(bytes)

SpecSave == InitSave /\ [][NextSave]_vars

-----------------------------------------------------------------------------
(* filesystem.py: the handle of a materialized file.  sga is the            *)
(* SgaFsFileV2Mem object: the bytes and the position of its BytesIO, and    *)
(* whether a with-block of openbin is running (its lock held).              *)

\* BytesIO.read(n) at a position: the bytes read
stream_read(h, n) == Slice(h.data, h.pos, h.pos + n)
\* BytesIO.write(w) at a position: the bytes left
stream_write(h, w) ==
    SubSeq(h.data, 1, h.pos) \o w \o Slice(h.data, h.pos + Len(w), Len(h.data))

\* SgaFsFileV2Mem.openbin(mode) up to its yield: with self._lock: yield
\* self._handle
openbin_enter(m) == [m EXCEPT !.in_with = TRUE]
\* SgaFsFileV2Mem.openbin(mode) after its yield when the with-block of the
\* caller ended normally: self._handle.seek(0), and the lock is released
openbin_exit(m) == [m EXCEPT !._handle.pos = 0, !.in_with = FALSE]
\* when the with-block of the caller raised: contextmanager throws the
\* error into the generator at its yield, the with statement around the
\* yield releases the lock, and the statement after the yield does not run
openbin_throw(m) == [m EXCEPT !.in_with = FALSE]

\* with file.openbin(mode) as stream:
OpenBinEnter ==
    /\ sga.kind = "SgaFsFileV2Mem"
    /\ ~sga.in_with
    /\ sga' = openbin_enter(sga)
    /\ last' = [op |-> "openbin", err |-> OK, val |-> sga._handle.pos]
    /\ UNCHANGED <<drives, folders, files, threads, archive>>

\* stream.read(n) inside the with-block
StreamRead(n) ==
    /\ sga.kind = "SgaFsFileV2Mem"
    /\ sga.in_with
    /\ sga' = [sga EXCEPT !._handle.pos = @ + Len(stream_read(sga._handle, n))]
    /\ last' = [op |-> "read", err |-> OK, val |-> stream_read(sga._handle, n)]
    /\ UNCHANGED <<drives, folders, files, threads, archive>>

\* stream.write(w) inside the with-block
StreamWrite(w) ==
    /\ sga.kind = "SgaFsFileV2Mem"
    /\ sga.in_with
    /\ sga._handle.pos + Len(w) <= MaxStream
    /\ sga' = [sga EXCEPT !._handle.data = stream_write(sga._handle, w),
                          !._handle.pos = @ + Len(w)]
    /\ last' = [op |-> "write", err |-> OK, val |-> Len(w)]
    /\ UNCHANGED <<drives, folders, files, threads, archive>>

\* stream.seek(p) inside the with-block, to a position the stream has
StreamSeek(p) ==
    /\ sga.kind = "SgaFsFileV2Mem"
    /\ sga.in_with
    /\ p <= Len(sga._handle.data)
    /\ sga' = [sga EXCEPT !._handle.pos = p]
    /\ last' = [op |-> "seek", err |-> OK, val |-> p]
    /\ UNCHANGED <<drives, folders, files, threads, archive>>

\* the with-block ends normally
OpenBinExit ==
    /\ sga.kind = "SgaFsFileV2Mem"
    /\ sga.in_with
    /\ sga' = openbin_exit(sga)
    /\ last' = [op |-> "release", err |-> OK, val |-> sga._handle.pos]
    /\ UNCHANGED <<drives, folders, files, threads, archive>>

\* the with-block raises
OpenBinThrow ==
    /\ sga.kind = "SgaFsFileV2Mem"
    /\ sga.in_with
    /\ sga' = openbin_throw(sga)
    /\ last' = [op |-> "release", err |-> "Exception", val |-> sga._handle.pos]
    /\ UNCHANGED <<drives, folders, files, threads, archive>>

\* SgaFsFileV2Mem(name, data=...): a BytesIO over the data, at position 0
InitHandle ==
    /\ \E data \in Streams :
          sga = [kind |-> "SgaFsFileV2Mem",
                 _handle |-> [data |-> data, pos |-> 0],
                 in_with |-> FALSE]
    /\ archive = NoArchive
    /\ drives = <<>>
    /\ folders = NoFolders
    /\ files = NoFiles
    /\ threads = NoThreads
    /\ last = [op |-> "__init__", err |-> OK, val |-> 0]

NextHandle ==
    \/ OpenBinEnter
    \/ \E n \in 1 .. MaxStream : StreamRead(n)
    \/ \E w \in Streams \ {<<>>} : StreamWrite(w)
    \/ \E p \in 0 .. MaxStream : StreamSeek(p)
    \/ OpenBinExit
    \/ OpenBinThrow

SpecHandle == InitHandle /\ [][NextHandle]_vars

-----------------------------------------------------------------------------
(* serialization.py: the modification time of a data header.  A Python int  *)
(* is a pair <<q, r>> with 0 <= r < 2^16 that stands for q * 2^16 + r, so   *)
(* that every value of four bytes, signed or not, has one representation.   *)

Half == 65536
PyInt(q, r) == <<q, r>>

\* RelicUnixTimeSerializer.pack(value): int_value.to_bytes(4, "little",
\* signed=True): [err, val]
pack(value) ==
    IF value[1] < -(Half \div 2) \/ value[1] >= Half \div 2
    THEN [err |-> "OverflowError", val |-> <<>>]
    ELSE Return(to_bytes(value[2], 2) \o to_bytes(value[1] % Half, 2))

\* RelicUnixTimeSerializer.unpack(buffer): int.from_bytes(buffer, "little",
\* signed=False)
unpack(buffer) ==
    PyInt(from_bytes(SubSeq(buffer, 3, 4)), from_bytes(SubSeq(buffer, 1, 2)))

\* LazySgaTocFileDataHeaderV2Dow.Meta: (offset, size) of the fields
name_ptr == <<0, 256>>
modified_ptr == <<256, 4>>
crc_ptr == <<260, 4>>

\* self._serializer.read_bytes(offset, size)
read_bytes(buffer, offset, size) == SubSeq(buffer, offset + 1, offset + size)
\* self._serializer.write_bytes(b, offset, size)
write_bytes(buffer, b, offset, size) ==
    SubSeq(buffer, 1, offset) \o b \o SubSeq(buffer, offset + size + 1, Len(buffer))

\* LazySgaTocFileDataHeaderV2Dow.modified
modified(buffer) == unpack(read_bytes(buffer, modified_ptr[1], modified_ptr[2]))
\* LazySgaTocFileDataHeaderV2Dow.modified = value: [err, val], val the bytes
\* of the header afterwards
modified_setter(buffer, value) ==
    Bind(pack(value), LAMBDA b :
         IF b.err # OK THEN [err |-> b.err, val |-> buffer]
         ELSE Return(write_bytes(buffer, b.val, modified_ptr[1], modified_ptr[2])))

\* times around 0, around 2^16 and at both ends of the signed 32-bit range,
\* and the first value past each end
Times ==
    {PyInt(q, r) : q \in {-(Half \div 2) - 1, -(Half \div 2), -1, 0, 1,
                          Half \div 2 - 1, Half \div 2},
                   r \in {0, 1, 255, 256, Half - 1}}
Signed32(value) == value[1] >= -(Half \div 2) /\ value[1] < Half \div 2

\* the data header of a file named "a", its name padded with zero bytes
DataHeader(time, crc) ==
    [kind |-> "data_header",
     buffer |-> <<97>> \o [i \in 1 .. name_ptr[2] - 1 |-> 0] \o time \o crc]

\* header.modified = value
SetModified(value) ==
    \E r \in {modified_setter(archive.buffer, value)} :
    /\ archive.kind = "data_header"
    /\ archive' = [archive EXCEPT !.buffer = r.val]
    /\ last' = [op |-> "modified.setter", err |-> r.err, val |-> value]
    /\ UNCHANGED <<drives, folders, files, threads, sga>>

\* header.modified
GetModified ==
    /\ archive.kind = "data_header"
    /\ last' = [op |-> "modified", err |-> OK, val |-> modified(archive.buffer)]
    /\ UNCHANGED <<drives, folders, files, threads, archive, sga>>

InitTime ==
    /\ archive \in {DataHeader(<<0, 0, 0, 0>>, <<1, 2, 3, 4>>),
                    DataHeader(<<255, 255, 255, 255>>, <<1, 2, 3, 4>>)}
    /\ sga = NoSga
    /\ drives = <<>>
    /\ folders = NoFolders
    /\ files = NoFiles
    /\ threads = NoThreads
    /\ last = [op |-> "none", err |-> OK, val |-> PyInt(0, 0)]

NextTime ==
    \/ \E value \in Times : SetModified(value)
    \/ GetModified

SpecTime == InitTime /\ [][NextTime]_vars

-----------------------------------------------------------------------------
(* serialization.py: the stored data header of a file and the header kept   *)
(* for it.  archive holds the stored header, and the name and payload the   *)
(* caller has from the TOC.                                                 *)

\* what a call that raised has returned
NoHeader == [none |-> TRUE]

\* MemSgaTocFileDataHeaderV2Dow.create(name, data, time)
create(name, data, time) ==
    [name |-> name, crc32 |-> crc32(data),
     modified |-> IF time = NoneInt THEN Now ELSE time]

\* LazySgaTocFileDataHeaderV2Dow.get_valid_header(name, data, modified):
\* [err, val]; a valid header is read again, name first
get_valid_header(stored, name, data, time) ==
    IF header_is_valid(stored)
    THEN IF stored.raises.name # "None" THEN [err |-> stored.raises.name, val |-> NoHeader]
         ELSE IF stored.raises.crc32 # "None"
         THEN [err |-> stored.raises.crc32, val |-> NoHeader]
         ELSE IF stored.raises.modified # "None"
         THEN [err |-> stored.raises.modified, val |-> NoHeader]
         ELSE Return([name |-> stored.name, crc32 |-> stored.crc32,
                      modified |-> stored.modified])
    ELSE Return(create(name, data, time))

\* what reading a property of a stored header may raise: nothing, the two
\* errors of decoding, or another error (of a closed stream, say)
ReadErrors == {"None", "RelicToolError", "UnicodeDecodeError", "ValueError"}
\* names of one byte: "a", a control character, and DEL
StoredNames == {<<97>>, <<1>>, <<127>>}
\* str.isprintable() of a name of ASCII bytes
printable(name) == \A i \in 1 .. Len(name) : name[i] >= 32 /\ name[i] <= 126

StoredHeaders ==
    {[kind |-> "stored_header",
      header |-> [name |-> n, crc32 |-> 6, modified |-> 5,
                  raises |-> [name |-> e1, crc32 |-> e2, modified |-> e3]],
      name |-> <<98>>,
      payload |-> <<1>>] :
        n \in StoredNames, e1 \in ReadErrors, e2 \in ReadErrors, e3 \in ReadErrors}

\* header.header_is_valid()
HeaderIsValid ==
    /\ archive.kind = "stored_header"
    /\ last' = [op |-> "header_is_valid", err |-> OK,
                val |-> [valid |-> header_is_valid(archive.header)]]
    /\ UNCHANGED <<drives, folders, files, threads, archive, sga>>

\* header.get_valid_header(name, data, modified)
GetValidHeader(time) ==
    \E r \in {get_valid_header(archive.header, archive.name, archive.payload, time)} :
    /\ archive.kind = "stored_header"
    /\ last' = [op |-> "get_valid_header", err |-> r.err, val |-> r.val]
    /\ UNCHANGED <<drives, folders, files, threads, archive, sga>>

InitHeader ==
    /\ archive \in StoredHeaders
    /\ sga = NoSga
    /\ drives = <<>>
    /\ folders = NoFolders
    /\ files = NoFiles
    /\ threads = NoThreads
    /\ last = [op |-> "none", err |-> OK, val |-> NoHeader]

NextHeader ==
    \/ HeaderIsValid
    \/ \E time \in {NoneInt, 0, 7} : GetValidHeader(time)

SpecHeader == InitHeader /\ [][NextHeader]_vars

-----------------------------------------------------------------------------
(* filesystem.py: SgaPathResolver on the paths of a caller.  archive holds  *)
(* the path, last the result of the call.                                   *)

\* longest path, in characters
MaxPathLen == 3
PathChars == {"a", "/", "\\"}
\* every path of these characters that is not empty
CallerPaths ==
    {[kind |-> "path", path |-> p] :
        p \in UNION {[1 .. n -> PathChars] : n \in 1 .. MaxPathLen}}

\* SgaPathResolver.split(path)
Split ==
    \E r \in {split(archive.path)} :
    /\ archive.kind = "path"
    /\ last' = [op |-> "split", err |-> r.err, val |-> r.val]
    /\ UNCHANGED <<drives, folders, files, threads, archive, sga>>

\* SgaPathResolver.basename(path)
Basename ==
    \E r \in {basename(archive.path)} :
    /\ archive.kind = "path"
    /\ last' = [op |-> "basename", err |-> r.err, val |-> r.val]
    /\ UNCHANGED <<drives, folders, files, threads, archive, sga>>

\* SgaPathResolver.dirname(path)
Dirname ==
    \E r \in {dirname(archive.path)} :
    /\ archive.kind = "path"
    /\ last' = [op |-> "dirname", err |-> r.err, val |-> r.val]
    /\ UNCHANGED <<drives, folders, files, threads, archive, sga>>

\* SgaPathResolver.join(*SgaPathResolver.split(path))
JoinSplit ==
    \E s \in {split(archive.path)} :
    \E r \in {IF s.err # OK THEN s
              ELSE join(<<s.val.parent, s.val.child>>, FALSE)} :
    /\ archive.kind = "path"
    /\ last' = [op |-> "join", err |-> r.err, val |-> r.val]
    /\ UNCHANGED <<drives, folders, files, threads, archive, sga>>

InitPaths ==
    /\ archive \in CallerPaths
    /\ sga = NoSga
    /\ drives = <<>>
    /\ folders = NoFolders
    /\ files = NoFiles
    /\ threads = NoThreads
    /\ last = [op |-> "none", err |-> OK, val |-> <<>>]

NextPaths == Split \/ Basename \/ Dirname \/ JoinSplit

SpecPaths == InitPaths /\ [][NextPaths]_vars

-----------------------------------------------------------------------------
(* filesystem.py: the locks of the file nodes.  Every backing has an RLock  *)
(* of its own; a thread is inside the with-blocks of the handles it has     *)
(* opened and not yet left, innermost last, and may call from there.       *)

\* deepest nesting of with-blocks of one thread
MaxNest == 2

\* the calls of the threads: openbin('r'), openbin('w'), getinfo(['basic']),
\* verify_crc32(False), recalculate_crc32()
LockOps == {"openbin_r", "openbin_w", "getinfo", "verify_crc32", "recalculate_crc32"}

\* a thread outside every call and every with-block
FreeThread == [pc |-> "idle", op |-> "none", id |-> 0, held |-> <<>>]

\* the nodes whose lock a thread holds
HeldIds(thread) == {thread.held[i].id : i \in DOMAIN thread.held}

\* self._lock = RLock(): `with self._lock` of node id lets thread t in when no
\* other thread holds the lock; with a threading.Lock in its place the owner
\* would wait as every other thread
RLock_as_Lock(th, t, id) == \A u \in Threads : id \notin HeldIds(th[u])
RLock(th, t, id) == \A u \in Threads \ {t} : id \notin HeldIds(th[u])

\* whether op on the file object f reaches a `with self._lock`: a mutation
\* of a wrapper still flagged lazy runs _convert_to_memfile, whose getinfo
\* of the lazy backing takes the lock; every other call is the backing's
acquires(f, op) ==
    IF f.kind = "wrapper" /\ op \in Mutating /\ f._is_lazy THEN TRUE
    ELSE TakesLock(f, op)

\* thread t calls op on the file object id, from outside or from inside the
\* with-blocks it is in
LockCall(t, id, op) ==
    /\ threads[t].pc = "idle"
    /\ files[id].kind # "free"
    /\ op \in {"openbin_r", "openbin_w"} => Len(threads[t].held) < MaxNest
    /\ threads' = [threads EXCEPT ![t].pc = "call", ![t].op = op, ![t].id = id]
    /\ UNCHANGED <<drives, folders, files, last, archive, sga>>

\* openbin of the backing: `with self._lock: yield ...`; the thread is inside
\* one more with-block
LockEnter(t) ==
    \E id \in {threads[t].id} :
    /\ threads[t].pc = "call"
    /\ threads[t].op \in {"openbin_r", "openbin_w"}
    /\ backing_call(files[id], threads[t].op).err = OK
    /\ RLock(threads, t, id)
    /\ threads' = [threads EXCEPT ![t] =
           [FreeThread EXCEPT !.held = Append(threads[t].held,
                                              [id |-> id, op |-> threads[t].op])]]
    /\ UNCHANGED <<drives, folders, files, last, archive, sga>>

\* the body and the end of the innermost with-block, which gives one hold of
\* the lock back
LockExit(t) ==
    /\ threads[t].pc = "idle"
    /\ threads[t].held # <<>>
    /\ \E h \in {threads[t].held[Len(threads[t].held)]} :
       \E r \in {backing_call(files[h.id], h.op)} :
       /\ files' = [files EXCEPT ![h.id] = r.val]
       /\ last' = [op |-> h.op, err |-> r.err, t |-> t, id |-> h.id,
                   inside |-> \E i \in 1 .. (Len(threads[t].held) - 1) :
                                 threads[t].held[i].id = h.id]
    /\ threads' = [threads EXCEPT ![t].held = SubSeq(@, 1, Len(@) - 1)]
    /\ UNCHANGED <<drives, folders, archive, sga>>

\* every other call, and an openbin that is refused: it waits for the lock
\* where it takes one, runs inside it and returns; inside tells whether the
\* thread held the lock of the node already
LockReturn(t) ==
    \E id \in {threads[t].id} :
    \E r \in {backing_call(files[id], threads[t].op)} :
    /\ threads[t].pc = "call"
    /\ ~(threads[t].op \in {"openbin_r", "openbin_w"} /\ r.err = OK)
    /\ acquires(files[id], threads[t].op) => RLock(threads, t, id)
    /\ files' = [files EXCEPT ![id] = r.val]
    /\ threads' = [threads EXCEPT ![t] = [FreeThread EXCEPT !.held = threads[t].held]]
    /\ last' = [op |-> threads[t].op, err |-> r.err, t |-> t, id |-> id,
                inside |-> id \in HeldIds(threads[t])]
    /\ UNCHANGED <<drives, folders, archive, sga>>

\* the loaded archive and a file a client has constructed
InitLocks ==
    /\ drives = LoadedDrives
    /\ folders = LoadedFolders
    /\ \E id \in FileIds \ ArchiveFileIds :
          files = [LoadedFiles EXCEPT ![id] =
                      MemFileObject(SgaFsFileV2Mem(<<"y">>, "None", NewData,
                                                   NoneInt, NoneInt))]
    /\ last = [op |-> "__init__", err |-> OK, t |-> 0, id |-> 0, inside |-> FALSE]
    /\ threads = [t \in Threads |-> FreeThread]
    /\ archive = NoArchive
    /\ sga = NoSga

NextLocks ==
    \E t \in Threads :
       \/ \E id \in FileIds, op \in LockOps : LockCall(t, id, op)
       \/ LockEnter(t)
       \/ LockExit(t)
       \/ LockReturn(t)

SpecLocks == InitLocks /\ [][NextLocks]_vars

\* thread t has called and waits for a lock another thread holds
Waiting(th, fi, t) ==
    /\ th[t].pc = "call"
    /\ acquires(fi[th[t].id], th[t].op)
    /\ ~RLock(th, t, th[t].id)

\* some threads wait, each for a lock that only threads among them hold
Deadlock(th, fi) ==
    \E S \in (SUBSET Threads) \ {{}} :
       \A t \in S :
          /\ Waiting(th, fi, t)
          /\ \A u \in Threads : th[t].id \in HeldIds(th[u]) => u \in S

\* no thread is inside the handles of two nodes, or calls another node from
\* inside a handle
OneNodeAtATime(th) ==
    \A t \in Threads :
       /\ \A i, j \in HeldIds(th[t]) : i = j
       /\ (th[t].pc = "call" /\ th[t].held # <<>>) => th[t].id \in HeldIds(th[t])

-----------------------------------------------------------------------------
(* What the properties speak of *)

\* the node a path resolves to in a state, NoneRef when the lookup raises
NodeAt(fo, fi, dr, path) ==
    Bind(_getnode(fo, fi, dr, path, TRUE), LAMBDA n : IF n.err = OK THEN n.val ELSE NoneRef)

\* a directory exists at path
DirAt(fo, fi, dr, path) == NodeAt(fo, fi, dr, path).t = "folder"

\* the children an archive entry gives a lazy folder
LazyChildren(info) ==
    LET sub_folders == Slice(all_folders, TocFolders[info + 1].first_folder,
                             TocFolders[info + 1].last_folder)
        sub_files == Slice(all_files, TocFolders[info + 1].first_file,
                           TocFolders[info + 1].last_file)
    IN {sub_folders[i] : i \in DOMAIN sub_folders} \cup {sub_files[i] : i \in DOMAIN sub_files}

\* the children of a folder object: those of its archive entry while its
\* backing is lazy, the values of _children once it is in memory
ChildrenOf(f) ==
    IF f.backing = "lazy" THEN LazyChildren(f.lazy._info)
    ELSE {f.mem._children[n] : n \in DOMAIN f.mem._children}

\* the name a child is known by
NameOf(fo, fi, c) ==
    IF c.t = "folder" THEN folder_name(fo[c.id])
    ELSE IF fi[c.id].backing = "lazy" THEN TocFiles[fi[c.id]._info + 1].name
    ELSE fi[c.id].mem._name

ChildNames(fo, fi, id) == {NameOf(fo, fi, c) : c \in ChildrenOf(fo[id])}

\* every folder object with its children
Tree(fo) == [id \in FolderIds |-> ChildrenOf(fo[id])]

\* a node object is materialized: its lazy flag is cleared
Materialized(n) == n.kind # "free" /\ ~n._is_lazy

\* the decompressed payload and the stored CRC32 of a file object: those of
\* its archive entry while its backing is lazy, its own once it is in memory
PayloadOf(f) == IF f.backing = "lazy" THEN TocFiles[f._info + 1].data ELSE f.mem._handle
StoredCrc32(f) == IF f.backing = "lazy" THEN TocFiles[f._info + 1].crc32 ELSE f.mem._crc32

\* the child of the folder object id that goes by name, NoneRef when none does
ChildNamed(fo, fi, id, name) ==
    IF \E c \in ChildrenOf(fo[id]) : NameOf(fo, fi, c) = name
    THEN CHOOSE c \in ChildrenOf(fo[id]) : NameOf(fo, fi, c) = name
    ELSE NoneRef

\* the node n segments below node in the tree: the child named by the first
\* segment, its child named by the second, and so on
RECURSIVE NodeBelow(_, _, _, _)
NodeBelow(fo, fi, node, n) ==
    IF n = 0 THEN node
    ELSE Bind(NodeBelow(fo, fi, node, n - 1), LAMBDA parent :
         IF parent.t # "folder" THEN NoneRef
         ELSE ChildNamed(fo, fi, parent.id, SegmentAt(n)))

-----------------------------------------------------------------------------
(* Properties *)

\* C1: promotion is monotone.  A file or folder node whose lazy flag has been
\* cleared never has it set again, and a node backed by an in-memory object
\* is never backed by a lazy one again, whatever operation runs next
\* (getinfo, setinfo, openbin, listdir, add_file, add_folder, makedir,
\* makedirs, remove, removedir, verify_crc32, recalculate_crc32).
C1_PromotionMonotone ==
    [][/\ \A id \in FolderIds :
            /\ Materialized(folders[id]) => Materialized(folders'[id])
            /\ folders[id].backing = "mem" => folders'[id].backing = "mem"
       /\ \A id \in FileIds :
            /\ Materialized(files[id]) => Materialized(files'[id])
            /\ files[id].backing = "mem" => files'[id].backing = "mem"]_vars

\* a folder of the archive has been materialized, one more folder was added
\* to the tree and a listdir has succeeded since
C1_Witness ==
    /\ \E id \in FolderIds :
          /\ folders[id].kind = "wrapper"
          /\ Materialized(folders[id])
          /\ folders[id].backing = "mem"
          /\ ChildrenOf(folders[id]) # {}
    /\ \E id \in ArchiveFileIds : Materialized(files[id])
    /\ last = Outcome("listdir", OK)

\* C2: promoting a lazy file by a write-mode openbin, by setinfo or by
\* recalculate_crc32 completes without error and leaves a materialized file
\* with the name, storage type and modified time of the lazy original; after
\* recalculate_crc32 it also has the original's CRC32 and payload.
C2_PromotionPreservesFile ==
    [][\A id \in ArchiveFileIds :
          (/\ files[id].kind = "wrapper"
           /\ files[id]._is_lazy
           /\ \/ FileOpenBin(id, <<"w">>)
              \/ \E info \in Infos : FileSetInfo(id, info)
              \/ FileRecalculateCrc32(id))
          => /\ last'.err = OK
             /\ Materialized(files'[id])
             /\ files'[id].backing = "mem"
             /\ files'[id].mem._name = TocFiles[files[id]._info + 1].name
             /\ files'[id].mem._storage_type = TocFiles[files[id]._info + 1].storage_type
             /\ last'.op = "recalculate_crc32"
                => /\ files'[id].mem._crc32 = TocFiles[files[id]._info + 1].crc32
                   /\ files'[id].mem._modified = TocFiles[files[id]._info + 1].modified
                   /\ files'[id].mem._handle = TocFiles[files[id]._info + 1].data]_vars

\* C3: the first add_file or add_folder on a lazy folder promotes it and
\* keeps exactly the children it had while lazy plus the one added, and
\* those children are left as they were (still lazy).
C3_PromotionKeepsChildren ==
    [][\A id \in FolderIds, name \in NewNames :
          (/\ folders[id].kind = "wrapper"
           /\ folders[id]._is_lazy
           /\ FolderAddFolder(id, name) \/ FolderAddFile(id, name)
           /\ last'.err = OK)
          => /\ ChildrenOf(folders[id]) \subseteq ChildrenOf(folders'[id])
             /\ Cardinality(ChildrenOf(folders'[id]))
                  = Cardinality(ChildrenOf(folders[id])) + 1
             /\ \A c \in ChildrenOf(folders[id]) :
                   IF c.t = "folder" THEN folders'[c.id] = folders[c.id]
                   ELSE files'[c.id] = files[c.id]]_vars

\* C4: setinfo on a path that names a file ends without error, leaves the
\* file materialized, and a getinfo of the same namespaces then ends without
\* error and reports the modified time and CRC32 that were given.
C4_SetInfoThenGetInfo ==
    [][\A path \in Paths, info \in Infos :
          (/\ NodeAt(folders, files, drives, path).t = "file"
           /\ SetInfo(path, info))
          => /\ last'.err = OK
             /\ Materialized(files'[NodeAt(folders, files, drives, path).id])
             /\ \E g \in {getinfo(folders', files', drives', path, info.keys)} :
                   /\ g.err = OK
                   /\ info.keys \subseteq g.info.keys
                   /\ g.info.modified = info.modified
                   /\ g.info.crc32 = info.crc32]_vars

\* C5: add_folder(f) on a folder puts f in that folder's folders map and not
\* in its files map; add_file(x) puts x in files and not in folders.
C5_AddGoesToOwnMap ==
    [][\A id \in FolderIds, name \in NewNames :
          /\ (FolderAddFolder(id, name) /\ last'.err = OK)
             => /\ name \in DOMAIN folders'[id].mem._folders
                /\ name \notin DOMAIN folders'[id].mem._files
          /\ (FolderAddFile(id, name) /\ last'.err = OK)
             => /\ name \in DOMAIN folders'[id].mem._files
                /\ name \notin DOMAIN folders'[id].mem._folders]_vars

\* C6: adding a file or folder under a name a child of the folder already has
\* fails with FileExists when that child is a file and with DirectoryExists
\* when it is a folder, and the folder keeps exactly its children.
C6_DuplicateNameRejected ==
    [][\A id \in FolderIds, name \in NewNames :
          (/\ folders[id].kind # "free"
           /\ name \in ChildNames(folders, files, id)
           /\ FolderAddFolder(id, name) \/ FolderAddFile(id, name))
          => /\ \A c \in ChildrenOf(folders[id]) :
                   NameOf(folders, files, c) = name
                   => last'.err = (IF c.t = "file" THEN "FileExists"
                                   ELSE "DirectoryExists")
             /\ ChildrenOf(folders'[id]) = ChildrenOf(folders[id])]_vars

\* C7: makedir(p, recreate=False) on a path where a directory exists fails
\* with DirectoryExists and leaves every folder with the children it had;
\* makedir(p, recreate=True) succeeds and the directory still exists.
C7_MakedirExisting ==
    [][\A path \in Paths :
          DirAt(folders, files, drives, path)
          => /\ MakeDir(path, FALSE)
                => /\ last'.err = "DirectoryExists"
                   /\ Tree(folders') = Tree(folders)
             /\ MakeDir(path, TRUE)
                => /\ last'.err = OK
                   /\ DirAt(folders', files', drives, path)]_vars

\* C8: makedir(p) where the parent directory exists and has no child named
\* like the last segment succeeds; p then resolves to an empty in-memory
\* directory, listdir of the parent contains the new name, and the parent is
\* materialized and still holds the children it had.
C8_MakedirNew ==
    [][\A alias \in PathAliases, n \in 1 .. MaxDepth, recreate \in BOOLEAN :
          \E parent \in {NodeAt(folders, files, drives, PathOf(alias, n - 1))} :
             (/\ parent.t = "folder"
              /\ SegmentAt(n) \notin ChildNames(folders, files, parent.id)
              /\ MakeDir(PathOf(alias, n), recreate))
             => /\ last'.err = OK
                /\ \E made \in {NodeAt(folders', files, drives, PathOf(alias, n))} :
                      /\ made.t = "folder"
                      /\ folders'[made.id].backing = "mem"
                      /\ ChildrenOf(folders'[made.id]) = {}
                /\ \E l \in {listdir(folders', files, drives, PathOf(alias, n - 1))} :
                      l.err = OK /\ SegmentAt(n) \in l.names
                /\ Materialized(folders'[parent.id])
                /\ ChildrenOf(folders[parent.id]) \subseteq ChildrenOf(folders'[parent.id])]_vars

\* C9: makedir("alias:/") creates a drive with that alias when there is none;
\* when there is one it fails with DirectoryExists unless recreate is set,
\* and the drives are left as they were.  No two drives share an alias after
\* any makedir, create_drive or add_drive.
C9_MakedirDrive ==
    [][/\ \A alias \in PathAliases \ {None}, recreate \in BOOLEAN :
            MakeDir(PathOf(alias, 0), recreate)
            => /\ ~HasDrive(drives, alias)
                  => last'.err = OK /\ HasDrive(drives', alias)
               /\ HasDrive(drives, alias)
                  => /\ drives' = drives
                     /\ last'.err = (IF recreate THEN OK ELSE "DirectoryExists")
       /\ \A i, j \in 1 .. Len(drives') :
            drives'[i].alias = drives'[j].alias => i = j]_vars

\* C10: after makedirs(p) has succeeded, p and every ancestor of p are
\* directories, and every folder still holds the children it had.
C10_MakedirsCreatesAll ==
    [][\A alias \in PathAliases, n \in 0 .. MaxDepth, recreate \in BOOLEAN :
          (MakeDirs(PathOf(alias, n), recreate) /\ last'.err = OK)
          => /\ \A k \in 0 .. n : DirAt(folders', files, drives', PathOf(alias, k))
             /\ \A id \in FolderIds :
                   ChildrenOf(folders[id]) \subseteq ChildrenOf(folders'[id])]_vars

\* C11: makedirs(p) with no alias in p fails with OperationFailed when the
\* filesystem has no drive and with InvalidPath when it has more than one,
\* and in both cases leaves drives, folders and files as they were; with
\* exactly one drive it fails with neither and succeeds whenever that drive's
\* root directory "alias:/" exists.
C11_MakedirsPicksDrive ==
    [][\A n \in 0 .. MaxDepth, recreate \in BOOLEAN :
          MakeDirs(PathOf(None, n), recreate)
          => /\ Len(drives) = 0
                => /\ last'.err = "OperationFailed"
                   /\ UNCHANGED <<drives, folders, files>>
             /\ Len(drives) > 1
                => /\ last'.err = "InvalidPath"
                   /\ UNCHANGED <<drives, folders, files>>
             /\ Len(drives) = 1
                => /\ last'.err \notin {"OperationFailed", "InvalidPath"}
                   /\ drives' = drives
                   /\ DirAt(folders, files, drives, PathOf(drives[1].alias, 0))
                      => last'.err = OK]_vars

\* a makedirs without alias has just been refused on a filesystem of two
\* drives, one of whose folders a client had materialized before
C11_Witness ==
    /\ Len(drives) > 1
    /\ last = Outcome("makedirs", "InvalidPath")
    /\ \E id \in FolderIds : folders[id].kind = "wrapper" /\ Materialized(folders[id])

\* C12: for every drive alias a of the filesystem, getinfo("a:/") answers
\* with that drive's root folder and reports a directory, listdir("a:/")
\* yields the names of the root's children, and getinfo of "a:/x", "a:/x/y"
\* answers with the node found by descending the segments from the root
\* whenever the tree holds one there.
C12_AliasPathResolves ==
    [][\A alias \in PathAliases \ {None} :
          HasDrive(drives, alias)
          => \E root \in {DriveOf(drives, alias).root} :
             /\ \A ns \in Namespaces :
                   GetInfo(PathOf(alias, 0), ns)
                   => \E g \in {getinfo(folders, files, drives, PathOf(alias, 0), ns)} :
                         g.err = OK /\ g.val = root /\ g.info.is_dir
             /\ ListDir(PathOf(alias, 0))
                => \E l \in {listdir(folders, files, drives, PathOf(alias, 0))} :
                      l.err = OK /\ l.names = ChildNames(folders, files, root.id)
             /\ \A n \in 1 .. MaxDepth, ns \in Namespaces :
                   (/\ GetInfo(PathOf(alias, n), ns)
                    /\ NodeBelow(folders, files, root, n) # NoneRef)
                   => getinfo(folders, files, drives, PathOf(alias, n), ns).val
                        = NodeBelow(folders, files, root, n)]_vars

\* C13: a lookup (here the one getinfo makes) of a path with an alias fails
\* with ResourceNotFound when no drive has that alias and otherwise answers
\* as the lookup in that drive alone; a lookup without alias answers with
\* the node of the first drive, in insertion order, in which the path
\* resolves, and when it resolves in none it fails, with ResourceNotFound or,
\* for a descent through a file, DirectoryExpected.
C13_LookupOrder ==
    [][\A path \in Paths :
          GetInfo(path, {NS_BASIC})
          => \E p \in {parse(path)},
                g \in {getinfo(folders, files, drives, path, {NS_BASIC})},
                hit \in {[i \in 1 .. Len(drives) |->
                            _getnode_from_drive(folders, files, drives[i],
                                                parse(path).path, TRUE)]} :
             /\ (p.alias # None /\ ~HasDrive(drives, p.alias))
                => g.err = "ResourceNotFound"
             /\ (p.alias # None /\ HasDrive(drives, p.alias))
                => \E i \in 1 .. Len(drives) :
                      /\ drives[i].alias = p.alias
                      /\ IF hit[i].err = OK THEN g.err = OK /\ g.val = hit[i].val
                         ELSE g.err \in {"ResourceNotFound", "DirectoryExpected"}
             /\ p.alias = None
                => /\ (\A i \in 1 .. Len(drives) : hit[i].err # OK)
                      => g.err \in {"ResourceNotFound", "DirectoryExpected"}
                   /\ \A i \in 1 .. Len(drives) :
                         (hit[i].err = OK /\ \A j \in 1 .. (i - 1) : hit[j].err # OK)
                         => g.err = OK /\ g.val = hit[i].val]_vars

\* C14: listdir(p) of a path that resolves to a folder, lazy or in memory,
\* succeeds and yields exactly the names of the folder's children; it fails
\* with DirectoryExpected when p resolves to a file and with ResourceNotFound
\* when the lookup of p finds nothing.
C14_ListDirNames ==
    [][\A path \in Paths :
          ListDir(path)
          => \E n \in {_getnode(folders, files, drives, path, TRUE)},
                l \in {listdir(folders, files, drives, path)} :
             /\ (n.err = OK /\ n.val.t = "folder")
                => /\ l.err = OK
                   /\ l.names = ChildNames(folders, files, n.val.id)
             /\ (n.err = OK /\ n.val.t = "file") => l.err = "DirectoryExpected"
             /\ n.err = "ResourceNotFound" => l.err = "ResourceNotFound"]_vars

\* C15: in every state, get_child(name) on a folder whose backing is lazy
\* ends without error and returns the child of that name among the files
\* all_files[first_file, last_file) and the folders
\* all_folders[first_folder, last_folder) of its archive entry, or nothing
\* when there is none; the file lookup it leaves behind is resolved and holds
\* exactly the files of the range.
C15_LazyChildLookup ==
    \A id \in FolderIds :
       folders[id].backing = "lazy"
       => \A name \in ChildQueries :
             \E r \in {get_child(folders, files, id, name)} :
                /\ r.err = OK
                /\ r.val = ChildNamed(folders, files, id, name)
                /\ r.fo[id].lazy._files.set
                /\ {r.fo[id].lazy._files.map[k] : k \in DOMAIN r.fo[id].lazy._files.map}
                     = {c \in LazyChildren(folders[id].lazy._info) : c.t = "file"}

\* C16: openbin with a writing mode, on a file object or on the path of a
\* file, succeeds, leaves that file materialized with an in-memory backing
\* and leaves every other file as it was and every folder with its backing
\* and children; openbin with a read-only mode on a lazy file succeeds and
\* leaves it lazy; openbin on the path of a directory fails with
\* FileExpected.
C16_OpenBinPromotesOnlyTarget ==
    [][/\ \A id \in ArchiveFileIds :
            (files[id].kind = "wrapper" /\ files[id]._is_lazy)
            => /\ FileOpenBin(id, <<"w">>)
                  => /\ last'.err = OK
                     /\ Materialized(files'[id])
                     /\ files'[id].backing = "mem"
                     /\ \A o \in FileIds \ {id} : files'[o] = files[o]
               /\ FileOpenBin(id, <<"r">>)
                  => /\ last'.err = OK
                     /\ files' = files
       /\ \A path \in Paths, mode \in Modes :
            OpenBin(path, mode)
            => \E n \in {NodeAt(folders, files, drives, path)} :
               /\ n.t = "folder" => last'.err = "FileExpected" /\ files' = files
               /\ (n.t = "file" /\ writing(mode))
                  => /\ last'.err = OK
                     /\ Materialized(files'[n.id])
                     /\ files'[n.id].backing = "mem"
                     /\ \A o \in FileIds \ {n.id} : files'[o] = files[o]
               /\ \A id \in FolderIds :
                     /\ folders'[id].backing = folders[id].backing
                     /\ ChildrenOf(folders'[id]) = ChildrenOf(folders[id])]_vars

\* C17: remove(p) of a path that resolves to a file and removedir(p) of a
\* path, other than a drive root, that resolves to a directory succeed;
\* afterwards the lookup of p fails with ResourceNotFound and the parent
\* holds the children it had except the one removed.
C17_RemoveUnlinks ==
    [][\A alias \in PathAliases, n \in 1 .. MaxDepth :
          \E path \in {PathOf(alias, n)} :
          \E node \in {NodeAt(folders, files, drives, path)},
             parent \in {NodeAt(folders, files, drives, PathOf(alias, n - 1))} :
             (\/ node.t = "file" /\ Remove(path)
              \/ node.t = "folder" /\ RemoveDir(path))
             => /\ last'.err = OK
                /\ _getnode(folders', files', drives', path, TRUE).err = "ResourceNotFound"
                /\ parent.t = "folder"
                   => ChildrenOf(folders'[parent.id])
                        = ChildrenOf(folders[parent.id]) \ {node}]_vars

\* C18 (as the code has it): remove(p) of a drive root, "/" or "alias:/",
\* fails with FileExpected and removedir(p) of a drive root fails with
\* RemoveRootError; both leave drives, folders and files as they were.
C18_RemoveRootRefused ==
    [][\A alias \in PathAliases :
          /\ Remove(PathOf(alias, 0))
             => /\ last'.err = "FileExpected"
                /\ UNCHANGED <<drives, folders, files>>
          /\ RemoveDir(PathOf(alias, 0))
             => /\ last'.err = "RemoveRootError"
                /\ UNCHANGED <<drives, folders, files>>]_vars

\* a remove of a drive root has just been refused on a filesystem in which a
\* folder of the archive had been materialized and holds a child
C18_Witness ==
    /\ last = Outcome("remove", "FileExpected")
    /\ drives # <<>>
    /\ \E id \in FolderIds :
          /\ folders[id].kind = "wrapper"
          /\ Materialized(folders[id])
          /\ ChildrenOf(folders[id]) # {}

\* C18 (as the specification has it): remove(p) and removedir(p) of a drive
\* root both fail with RemoveRootError and leave drives, folders and files as
\* they were.
C18_RemoveRootError ==
    [][\A alias \in PathAliases :
          (Remove(PathOf(alias, 0)) \/ RemoveDir(PathOf(alias, 0)))
          => /\ last'.err = "RemoveRootError"
             /\ UNCHANGED <<drives, folders, files>>]_vars

\* C19: in every state, getinfo(namespaces) of a file, lazy or in memory,
\* ends without error for every choice of namespaces; the result always has
\* the basic namespace (the file's name, is_dir false), has the details
\* namespace exactly when "details" is asked for, then with size the length
\* of the decompressed payload, and has the essence namespace exactly when
\* "essence" is asked for, then with the stored CRC32.
C19_GetInfoNamespaces ==
    \A id \in FileIds, ns \in SUBSET {NS_BASIC, NS_DETAILS, NS_ESSENCE} :
       files[id].kind # "free"
       => \E g \in {file_getinfo(files[id], ns)} :
          /\ g.err = OK
          /\ NS_BASIC \in g.val.keys
          /\ g.val.name = NameOf(folders, files, FileRef(id))
          /\ ~g.val.is_dir
          /\ NS_DETAILS \in g.val.keys <=> NS_DETAILS \in ns
          /\ NS_ESSENCE \in g.val.keys <=> NS_ESSENCE \in ns
          /\ NS_DETAILS \in ns => g.val.size = Len(PayloadOf(files[id]))
          /\ NS_ESSENCE \in ns => g.val.crc32 = StoredCrc32(files[id])

\* C20: verify_crc32(error) of a file, lazy or in memory, changes nothing.
\* When the CRC32 of the decompressed payload equals the stored CRC32 it
\* returns true; when it does not, it returns false for error = false and
\* fails with a CRC32 mismatch for error = true.
C20_VerifyCrc32 ==
    [][\A id \in FileIds, error \in BOOLEAN :
          FileVerifyCrc32(id, error)
          => \E r \in {file_verify_crc32(files[id], error)},
                match \in {crc32(PayloadOf(files[id])) = StoredCrc32(files[id])} :
             /\ UNCHANGED <<drives, folders, files>>
             /\ match => r.err = OK /\ r.val = TRUE
             /\ (~match /\ ~error) => r.err = OK /\ r.val = FALSE
             /\ (~match /\ error) => r.err = "Crc32Mismatch"]_vars

\* C21: a write through an openbin handle that changes the payload of an
\* in-memory file invalidates its cached CRC32: unless the pre-write CRC32
\* happens to be the CRC32 of the new payload, getinfo no longer reports it
\* after the write; and recalculate_crc32 of an in-memory file leaves the
\* stored CRC32 equal to the CRC32 of the payload, so that verify_crc32
\* returns true.
C21_WriteInvalidatesCrc32 ==
    [][\A id \in FileIds :
          /\ (/\ files[id].backing = "mem"
              /\ files'[id].backing = "mem"
              /\ PayloadOf(files'[id]) # PayloadOf(files[id])
              /\ crc32(PayloadOf(files'[id])) # StoredCrc32(files[id]))
             => file_getinfo(files'[id], {NS_ESSENCE}).val.crc32
                    # StoredCrc32(files[id])
          /\ (FileRecalculateCrc32(id) /\ files[id].backing = "mem")
             => /\ StoredCrc32(files'[id]) = crc32(PayloadOf(files'[id]))
                /\ file_verify_crc32(files'[id], TRUE) = [err |-> OK, val |-> TRUE]]_vars

\* C22: when two threads each make their first mutating call (openbin in a
\* writing mode, setinfo, recalculate_crc32) on the same lazy file at the
\* same time, no call ends as a write refused by the lazy backing, and the
\* file is backed in memory when either call ends.
C22_PromotionOnce ==
    [][\A t \in Threads : \A u \in Threads \ {t} :
          (/\ threads[t].pc # "idle" /\ threads'[t].pc = "idle"
           /\ threads[t].op \in Mutating /\ threads[t].lazy
           /\ threads[u].pc # "idle" /\ threads[u].id = threads[t].id
           /\ threads[u].op \in Mutating /\ threads[u].lazy)
          => /\ last'.err # "RelicToolError"
             /\ files'[threads[t].id].backing = "mem"]_vars

\* C23: while a thread is inside the with-block of openbin on a file, no
\* step of another thread's call on the same file changes the file object,
\* and no such call returns what it read of the file.
C23_NodeOpsLinearize ==
    [][\A t \in Threads : \A u \in Threads \ {t} :
          (/\ threads[t].pc = "in_with" /\ threads'[t].pc = "in_with"
           /\ threads[u].id = threads[t].id
           /\ threads'[u] # threads[u])
          => /\ files'[threads[t].id] = files[threads[t].id]
             /\ ~(threads'[u].pc = "idle" /\ last'.err = OK)]_vars

\* C25: loading an opened archive into the filesystem reads the payload of
\* none of its files.
C25_LoadReadsNoPayload ==
    [][LoadLazy
       => \A i \in 1 .. archive.header.file_count : ~sga'.loaded[i].read]_vars

\* C26: after loading, the data header of a file holds the stored CRC32 and
\* modification time when has_safe_file_data_header holds, or
\* has_file_data_header holds and the stored header is valid; otherwise it
\* holds the CRC32 of the payload and the time of loading.
C26_StoredHeaderKept ==
    [][LoadLazy
       => \A i \in 1 .. archive.header.file_count :
             IF \/ sga._has_safe_file_data_headers
                \/ /\ sga._has_file_data_headers
                   /\ archive.data[i].header.raises = NoRaise
             THEN /\ sga'.loaded[i]._data_header.crc32 = archive.data[i].header.crc32
                  /\ sga'.loaded[i]._data_header.modified
                         = archive.data[i].header.modified
             ELSE /\ sga'.loaded[i]._data_header.crc32
                         = crc32(archive.data[i].payload)
                  /\ sga'.loaded[i]._data_header.modified = Now]_vars

C28_DataHeaderFlags ==
    [][(Open /\ last'.err = OK)
       => LET expected == archive.header.file_count * 264
                              + total_data_size(archive.compressed_size)
          IN /\ sga'._has_file_data_headers <=> expected <= archive.data_len
             /\ sga'._has_safe_file_data_headers <=> expected = archive.data_len
             /\ sga'._has_safe_file_data_headers => sga'._has_file_data_headers
             /\ (archive.header.file_count = 0 /\ archive.data_len = 0)
                => (/\ sga'._has_file_data_headers
                    /\ sga'._has_safe_file_data_headers)]_vars

\* an archive of two files of 2 and 1 compressed bytes in a data block
\* longer than its headers and payloads need has been opened
C28_Witness ==
    /\ sga # NoSga
    /\ archive.compressed_size = <<2, 1>>
    /\ archive.data_len = 2 * 264 + 4
    /\ sga._has_file_data_headers
    /\ ~sga._has_safe_file_data_headers

\* C29: setting the storage type of a file record of either dialect to
\* STORE, DEFLATE_BUFFER or DEFLATE_STREAM succeeds whatever the flags were,
\* and reading it back gives the type that was set; the write changes
\* neither the low nibble of the flags, nor any of their bits above the
\* low byte, nor any byte of the record outside the flags field.
C29_StorageTypeRoundTrip ==
    [][\A value \in {"STORE", "DEFLATE_BUFFER", "DEFLATE_STREAM"} :
          SetStorageType(value)
          => LET w == archive.flags_size
                 before == from_bytes(SubSeq(archive.buffer, 5, 4 + w))
                 after == from_bytes(SubSeq(archive'.buffer, 5, 4 + w))
             IN /\ last'.err = OK
                /\ storage_type(archive'.buffer, w) = Return(value)
                /\ after % 16 = before % 16
                /\ after \div 256 = before \div 256
                /\ Len(archive'.buffer) = Len(archive.buffer)
                /\ \A i \in 1 .. Len(archive.buffer) :
                      (i <= 4 \/ i > 4 + w) => archive'.buffer[i] = archive.buffer[i]]_vars

\* a record of the 1-byte dialect with a low nibble of 15, and one of the
\* 4-byte dialect with bits above the low byte, hold DEFLATE_STREAM after a
\* write
C29_Witness ==
    /\ last.op = "storage_type.setter"
    /\ last.val = "DEFLATE_STREAM"
    /\ \/ archive.flags_size = 1 /\ archive.buffer[5] = 47
       \/ archive.flags_size = 4 /\ archive.buffer[5] = 47 /\ archive.buffer[8] = 64

\* C30: verify_file hashes the stream when the stream is writable, or
\* error is true, or cached is false, or it has cached no result yet, and
\* otherwise returns its cached result without hashing.  When it hashes, a
\* match returns true, a mismatch with error false returns false and is
\* cached as false, and a mismatch with error true raises.  It leaves the
\* cached result of verify_header alone.  The same holds of verify_header,
\* with the two exchanged.
C30_VerifyCaching ==
    [][\A cached \in BOOLEAN, error \in BOOLEAN :
          /\ VerifyFile(cached, error)
             => LET hashes == \/ archive.writable \/ error \/ ~cached
                              \/ "__verified_file" \notin DOMAIN sga.attrs
                    match == archive.file_md5_ok
                IN /\ last'.hashed <=> hashes
                   /\ ~hashes => (/\ last'.err = OK
                                  /\ last'.val = sga.attrs["__verified_file"])
                   /\ (hashes /\ match) => (last'.err = OK /\ last'.val = TRUE)
                   /\ (hashes /\ ~match /\ ~error)
                      => (/\ last'.err = OK /\ last'.val = FALSE
                          /\ sga'.attrs["__verified_file"] = FALSE)
                   /\ (hashes /\ ~match /\ error) => last'.err # OK
                   /\ \A n \in DOMAIN sga.attrs \cup DOMAIN sga'.attrs :
                         n # "__verified_file"
                         => (/\ n \in DOMAIN sga.attrs /\ n \in DOMAIN sga'.attrs
                             /\ sga'.attrs[n] = sga.attrs[n])
          /\ VerifyHeader(cached, error)
             => LET hashes == \/ archive.writable \/ error \/ ~cached
                              \/ "__verified_header" \notin DOMAIN sga.attrs
                    match == archive.toc_md5_ok
                IN /\ last'.hashed <=> hashes
                   /\ ~hashes => (/\ last'.err = OK
                                  /\ last'.val = sga.attrs["__verified_header"])
                   /\ (hashes /\ match) => (last'.err = OK /\ last'.val = TRUE)
                   /\ (hashes /\ ~match /\ ~error)
                      => (/\ last'.err = OK /\ last'.val = FALSE
                          /\ sga'.attrs["__verified_header"] = FALSE)
                   /\ (hashes /\ ~match /\ error) => last'.err # OK
                   /\ \A n \in DOMAIN sga.attrs \cup DOMAIN sga'.attrs :
                         n # "__verified_header"
                         => (/\ n \in DOMAIN sga.attrs /\ n \in DOMAIN sga'.attrs
                             /\ sga'.attrs[n] = sga.attrs[n])]_vars

\* verify_file has returned a cached false without hashing, over a read-only
\* stream whose file hash now matches, while verify_header has true cached
C30_Witness ==
    /\ last.op = "verify_file"
    /\ ~last.hashed
    /\ last.val = FALSE
    /\ ~archive.writable
    /\ archive.file_md5_ok
    /\ "__verified_header" \in DOMAIN sga.attrs
    /\ sga.attrs["__verified_header"] = TRUE

\* C31: a filesystem read from an archive A and saved to an empty stream B
\* without error leaves in B an archive, so that B can be read and saved
\* again as B' with size(B) = size(B'): B is not left empty.
C31_ReadWriteRead ==
    [][(/\ Save(TRUE)
        /\ sga._lazy_file # "None"
        /\ archive.out = <<>>
        /\ last'.err = OK)
       => archive'.out # <<>>]_vars

\* C32: a save that ends with an error leaves the stream read from and the
\* stream handed to it as they were, and a save that returns without error
\* has written the archive to its destination (out when one is given, the
\* stream of the filesystem otherwise): a destination that was empty is not
\* left empty.
C32_SaveAllOrNothing ==
    [][\A out_given \in BOOLEAN :
          Save(out_given)
          => /\ last'.err # OK
                => (archive'.handle = archive.handle /\ archive'.out = archive.out)
             /\ (/\ last'.err = OK
                 /\ (IF out_given THEN archive.out ELSE archive.handle) = <<>>)
                => (IF out_given THEN archive'.out ELSE archive'.handle) # <<>>]_vars

\* C33: an archive that opens without error has its data block at or after
\* the end of its TOC, and every file record of it has a data offset of at
\* least 264 and a payload that ends inside the data block; after such an
\* archive is loaded no file has a header window that starts before the
\* data block or a payload window that ends after it.
C33_OffsetsChecked ==
    [][/\ (Open /\ last'.err = OK)
          => /\ archive.data_pos >= archive.toc_pos + archive.toc_end
             /\ \A i \in 1 .. archive.header.file_count :
                   /\ archive.data_offset[i] >= DataHeaderSize
                   /\ archive.data_offset[i] + archive.compressed_size[i]
                          <= archive.data_len
       /\ LoadLazy
          => \A i \in 1 .. archive.header.file_count :
                /\ sga'.loaded[i]._data_header_window.start >= 0
                /\ sga'.loaded[i].data.start + sga'.loaded[i].data.size
                       <= sga._data_window.size]_vars

\* C34: when a with-block over the handle of a materialized file ends,
\* normally or with an error, the position of the file's stream is 0, and
\* so every openbin yields the stream at position 0.
C34_ReleaseRewinds ==
    [][/\ (OpenBinExit \/ OpenBinThrow) => sga'._handle.pos = 0
       /\ OpenBinEnter => sga._handle.pos = 0]_vars

\* C35: for every v with -2^31 <= v < 2^31, pack(v) succeeds and
\* unpack(pack(v)) = v; writing v to the modified field of a data header
\* succeeds, changes no byte outside the field, and the field then reads v.
C35_ModifiedRoundTrip ==
    [][\A value \in Times :
          (SetModified(value) /\ Signed32(value))
          => /\ pack(value).err = OK
             /\ unpack(pack(value).val) = value
             /\ last'.err = OK
             /\ modified(archive'.buffer) = value
             /\ \A i \in 1 .. Len(archive.buffer) :
                   (i <= modified_ptr[1] \/ i > modified_ptr[1] + modified_ptr[2])
                   => archive'.buffer[i] = archive.buffer[i]]_vars

\* C36: header_is_valid returns true iff reading the name, the CRC32 and the
\* modification time of the stored header raises nothing and the name is
\* printable ASCII.  get_valid_header returns without error; it returns the
\* stored name, CRC32 and time when the header is valid in that sense, and
\* otherwise the given name, the CRC32 of the given payload and the given
\* time, or the time of the call when none is given.
C36_HeaderValidity ==
    [][LET valid == /\ archive.header.raises = NoRaise
                    /\ printable(archive.header.name)
       IN /\ HeaderIsValid => (last'.val.valid <=> valid)
          /\ \A time \in {NoneInt, 0, 7} :
                GetValidHeader(time)
                => /\ last'.err = OK
                   /\ last'.val =
                        IF valid
                        THEN [name |-> archive.header.name,
                              crc32 |-> archive.header.crc32,
                              modified |-> archive.header.modified]
                        ELSE [name |-> archive.name,
                              crc32 |-> crc32(archive.payload),
                              modified |-> IF time = NoneInt THEN Now ELSE time]]_vars

\* C37: for every path that is not empty, split returns a parent and a
\* basename without error; the basename holds no separator and is empty
\* for the root; dirname returns the parent and basename the basename; and
\* joining the parent and the basename succeeds and gives the path with its
\* backslashes turned into "/".
C37_SplitJoin ==
    [][/\ last'.op = "split"
          => /\ last'.err = OK
             /\ \A i \in 1 .. Len(last'.val.child) :
                   last'.val.child[i] \notin {SEP, "\\"}
             /\ fix_seperator(archive.path) = ROOT => last'.val.child = <<>>
             /\ dirname(archive.path) = Return(last'.val.parent)
             /\ basename(archive.path) = Return(last'.val.child)
       /\ last'.op = "join"
          => /\ last'.err = OK
             /\ last'.val = fix_seperator(archive.path)]_vars

\* C38: in every state every file wrapper and every folder wrapper has its
\* _is_lazy flag set iff its backing is the lazy object, also after an
\* operation that ended with an error.
C38_LazyFlagMatchesBacking ==
    /\ \A id \in FolderIds :
          folders[id].kind = "wrapper"
          => (folders[id]._is_lazy <=> folders[id].backing = "lazy")
    /\ \A id \in FileIds :
          files[id].kind = "wrapper"
          => (files[id]._is_lazy <=> files[id].backing = "lazy")

\* the folder whose archive entry holds the file id, and the path of that
\* file in the archive of the model: its folder is "x", below the root
ArchiveParent(id) ==
    CHOOSE f \in 1 .. NumTocFolders :
       TocFolders[f].first_file < id /\ id <= TocFolders[f].last_file
ArchivePath(id) == PathOf(None, 1) \o <<SEP>> \o TocFiles[id].name

\* the file id of the archive is the file at its path: its folder is the
\* node at the folder's path and holds it under its name
FileAtArchivePath(fo, fi, dr, id) ==
    /\ fi[id].kind = "wrapper"
    /\ NodeAt(fo, fi, dr, PathOf(None, 1)) = FolderRef(ArchiveParent(id))
    /\ ChildNamed(fo, fi, ArchiveParent(id), TocFiles[id].name) = FileRef(id)

\* C39: once the file at a path p has been promoted through the object one
\* lookup gave (a writing openbin, setinfo or recalculate_crc32), a lookup
\* of p ends without error and gives that same object, materialized with its
\* in-memory backing; and once its parent folder has been promoted by adding
\* an unrelated child, a lookup of p still gives that same object, unchanged.
C39_LookupByIdentity ==
    [][\A id \in ArchiveFileIds :
          FileAtArchivePath(folders, files, drives, id)
          => \E n \in {_getnode(folders', files', drives', ArchivePath(id), TRUE)} :
             /\ (\/ FileOpenBin(id, <<"w">>)
                 \/ \E info \in Infos : FileSetInfo(id, info)
                 \/ FileRecalculateCrc32(id))
                => /\ n.err = OK
                   /\ n.val = FileRef(id)
                   /\ Materialized(files'[id])
                   /\ files'[id].backing = "mem"
             /\ (/\ \E name \in NewNames :
                       \/ FolderAddFolder(ArchiveParent(id), name)
                       \/ FolderAddFile(ArchiveParent(id), name)
                 /\ last'.err = OK)
                => /\ n.err = OK
                   /\ n.val = FileRef(id)
                   /\ files'[id] = files[id]]_vars

\* C40: in no state do threads that call getinfo, openbin, verify_crc32 and
\* recalculate_crc32 on the file nodes, from inside open handles or not, wait
\* for each other's locks without end, and a thread that calls an operation
\* on a node whose lock it holds does not wait.
C40_NoDeadlock ==
    /\ ~Deadlock(threads, files)
    /\ \A t \in Threads :
          threads[t].id \in HeldIds(threads[t]) => ~Waiting(threads, files, t)

\* C40, amended: a step of an operation adds no lock to those its thread
\* holds but that of the node it was called on; a thread that calls an
\* operation on a node whose lock it holds does not wait; and no threads
\* wait for each other without end as long as no thread calls an operation
\* on one node from inside the open handle of another.
C40_PerNodeLocks ==
    [][\A t \in Threads :
          /\ HeldIds(threads'[t]) \subseteq HeldIds(threads[t]) \cup {threads[t].id}
          /\ threads'[t].id \in HeldIds(threads'[t]) => ~Waiting(threads', files', t)
          /\ OneNodeAtATime(threads') => ~Deadlock(threads', files')]_vars

\* a thread has verified, inside its own open handle, the file it holds,
\* while the other thread is inside a handle of another node
C40_Witness ==
    /\ last.op = "verify_crc32"
    /\ last.err = OK
    /\ last.inside
    /\ HeldIds(threads[last.t]) = {last.id}
    /\ \E u \in Threads \ {last.t} :
          HeldIds(threads[u]) # {} /\ last.id \notin HeldIds(threads[u])
    /\ OneNodeAtATime(threads)

====
